---- MODULE Spec2Model ----
(***************************************************************************)
(* BigTradeMonitor (src/polymarket_orderbook/big_trade_monitor.py): the    *)
(* owner thread's calls (start, stop, clear_history, set_tracked_markets,  *)
(* add_alert_callback) interleaved with the worker threads that run        *)
(* _monitor_loop.  The class takes no lock, so every access to a shared    *)
(* attribute is a step of its own: `stats[k] += 1` is a read followed by a *)
(* write, and clear_history() is five writes.                              *)
(***************************************************************************)
EXTENDS Integers, Sequences, FiniteSets, TLC

(* ------------------------------ bounds -------------------------------- *)
\* counters stop growing here: no fetch returns orders once a counter reached it
MaxCount == 2
\* add_alert_callback is not called once this many consumers are registered
MaxCallbacks == 2

\* the thread objects threading.Thread(...) can create, one per effective
\* start(): worker's domain is one of these
OneThread == {"w1"}
TwoThreads == {"w1", "w2"}
\* consumers the owner can register
Consumers == {"c1", "c2"}

(* --------------------------- program constants ------------------------ *)
\* poll_interval: float = 3.0, in seconds
PollInterval == 3
\* deque(maxlen=10000)
HistoryMaxLen == 10000
\* default size_threshold
DefaultSizeThreshold == 500
\* default value_threshold
DefaultValueThreshold == 100
\* TradeMonitor: deque(maxlen=1000), orderbook_history and spread_history
OrderbookMaxLen == 1000
SpreadMaxLen == 1000
\* prices are counted in tenths: price 5 is 0.5, and size * price is the
\* value in tenths
PriceUnit == 10
\* Python's None, for self.monitor_thread; stats["start_time"] is a logical
\* instant 1, 2, ... and 0 while it is None
None == "None"

(* ------------------------------ inputs -------------------------------- *)
\* an order level as the fetch returns it, price in tenths; num = FALSE: size
\* or price is not numeric, float() raises ValueError
BigOrder == [num |-> TRUE, price |-> 1, size |-> 600]
SmallOrder == [num |-> TRUE, price |-> 1, size |-> 50]
BadOrder == [num |-> FALSE, price |-> 0, size |-> 0]

\* the orderbook of a failed HTTP request, and the worker's `book` before a fetch
NoBook == [bids |-> << >>, asks |-> << >>]
BidBook == [bids |-> <<BigOrder>>, asks |-> << >>]
AskBook == [bids |-> <<SmallOrder>>, asks |-> <<BigOrder>>]
BadBook == [bids |-> <<BadOrder, BigOrder>>, asks |-> << >>]

\* orderbooks get_orderbook can return (without token_id, which is the argument)
Books == { NoBook, BidBook }
BooksCycle == { NoBook, AskBook, BadBook }

\* lists the owner passes to set_tracked_markets, each market_info by its
\* token_id; "" is a market_info without token_id
MarketLists == { << >>, <<"t1">> }
MarketListsCycle == { << >>, <<"t1", "", "t2">> }

MarketListsConfig == { <<"t1">>, <<"t2", "t1">> }

\* arguments of set_thresholds: None is << >>, the number x is << x >>
SizeArgs == { << >>, <<1000>> }
ValueArgs == { << >>, <<50>> }

\* what get_markets returns to discover_all_active_markets: one entry per
\* row, the row's clobTokenIds
MarketFrames == { << >>, << <<"t1">> >> }
MarketFramesCycle == { << >>, << <<"t1">>, <<"t2">> >> }
\* markets with two outcomes, hence two tokens, and one without tokens
MarketFramesPairs ==
    { << >>, << <<"t1", "t2">> >>, << <<"t1", "t2">>, <<"t3">> >>,
      << << >>, <<"t1">> >> }

\* market_limit arguments of start()
Limits == {1, 2}

VARIABLES
    is_running,          \* self.is_running
    monitor_thread,      \* self.monitor_thread: None or a thread
    seen_trade_ids,      \* self.seen_trade_ids
    big_trades_history,  \* self.big_trades_history
    tracked_markets,     \* self.tracked_markets
    alert_callbacks,     \* self.alert_callbacks
    size_threshold,      \* self.size_threshold
    value_threshold,     \* self.value_threshold
    stats,               \* self.stats
    opc,                 \* where the owner thread is
    oarg,                \* the owner's pending argument in a call of several steps
    worker,              \* per thread: where it is in _monitor_loop, its locals
    ret,                 \* what the owner's last call that returns a value returned
    orderbook_history,   \* TradeMonitor: self.orderbook_history
    spread_history,      \* TradeMonitor: self.spread_history
    at_stop,             \* per thread: the IDs in the history when stop() was
                         \* called for it
    clock,               \* time.time(), in seconds
    poller,              \* TradeMonitor: where _poll_orderbooks is, its callbacks
    http,                \* per thread: how the last request of its client ended
    positions,           \* TradeManager: self.positions
    pnl_history,         \* TradeManager: self.pnl_history
    closes,              \* TradeManager: the calls of close_position that found
                         \* a position
    replaced             \* TradeManager: the tokens whose position add_position
                         \* has overwritten

vars == << is_running, monitor_thread, seen_trade_ids, big_trades_history,
           tracked_markets, alert_callbacks, size_threshold, value_threshold,
           stats, opc, oarg, worker, ret, orderbook_history, spread_history,
           at_stop, clock, poller, http, positions, pnl_history, closes,
           replaced >>

\* what no step of BigTradeMonitor's start, clear_history or worker touches:
\* the owner's pending argument, the last returned value, TradeMonitor's
\* rings, the record of the history at stop() and the clock
others ==
    << oarg, ret, orderbook_history, spread_history, at_stop, clock, poller,
       http, positions, pnl_history, closes, replaced >>

\* TradeMonitor's poll, the clients' last requests and the TradeManager
apart == << poller, http, positions, pnl_history, closes, replaced >>

\* the monitor object's attributes (everything but the threads' positions)
attrs == << is_running, monitor_thread, seen_trade_ids, big_trades_history,
            tracked_markets, alert_callbacks, size_threshold, value_threshold,
            stats >>

(* ------------------------------ helpers ------------------------------- *)
Min(a, b) == IF a < b THEN a ELSE b

RECURSIVE Flatten(_)
Flatten(ss) == IF ss = << >> THEN << >> ELSE Head(ss) \o Flatten(Tail(ss))

\* list.append: no maxlen, nothing is evicted
ListAppend(q, x, n) == Append(q, x)

\* deque.append on a deque(maxlen=n)
DequeAppend(q, x, n) ==
    IF Len(q) >= n THEN Append(Tail(q), x) ELSE Append(q, x)

\* a rule whose value test asks for the threshold itself
IsBigAtValue(size, price, st, vt) ==
    size >= st \/ size * price = vt * PriceUnit

\* a rule that asks for both thresholds to be met
IsBigBoth(size, price, st, vt) ==
    size >= st /\ size * price >= vt * PriceUnit

\* size >= self.size_threshold or value >= self.value_threshold, with
\* value = size * price
IsBig(size, price, st, vt) ==
    size >= st \/ size * price >= vt * PriceUnit

\* f"{token_id}_{side}_{price}_{size}"
OrderId(token, side, price, size) == << token, side, price, size >>

\* the IDs of the records in the history
Detected ==
    { OrderId(r.token_id, r.side, r.price, r.size) :
          r \in { big_trades_history[i] : i \in DOMAIN big_trades_history } }

\* a thread's locals; called, visits, base, checked0, seen0, st0 and vt0
\* record what it did and saw: the consumers called for the current record
\* with the outcome of each call, the outcome of each market of the current
\* cycle, alerts_sent at the time _send_alerts was entered,
\* total_trades_checked and seen_trade_ids at the time the current orderbook
\* was returned, and the thresholds at the time the current cycle began.
\* cycle, cycle_start, cycle_time and sleep_time are the loop's locals of
\* these names, which the timed steps of the loop follow
InitWorker ==
    [ pc |-> "none", mlist |-> << >>, midx |-> 0, book |-> NoBook,
      side |-> "bids", oidx |-> 0, tmp |-> 0, cidx |-> 0,
      called |-> << >>, visits |-> << >>, base |-> 0,
      checked0 |-> 0, seen0 |-> {}, st0 |-> 0, vt0 |-> 0, token |-> "",
      cycle |-> 0, cycle_start |-> 0, cycle_time |-> 0, sleep_time |-> 0 ]

\* no call has returned a value yet
NoReturn == [ op |-> "none", arg |-> << >>, value |-> << >> ]

Alive(t) == worker[t].pc \notin {"none", "done"}

\* TradeMonitor before a poll, with no market tracked and no callback
InitPoller ==
    [ pc |-> "idle", tracked_markets |-> << >>,
      callbacks |-> [e \in {"spread_change", "orderbook_update",
                            "large_order"} |-> << >>],
      tidx |-> 0, event |-> "none", cidx |-> 0, side |-> "bids", oidx |-> 0,
      orderbook |-> NoBook, polls |-> 0, polled |-> << >>, log |-> << >>,
      raised |-> {} ]

\* TradeMonitor and TradeManager after __init__, the clients before a request
InitApart(T) ==
    /\ poller = InitPoller
    /\ http = [t \in T |-> "none"]
    /\ positions = << >>
    /\ pnl_history = << >>
    /\ closes = 0
    /\ replaced = {}

\* the state after __init__, with threads T to create workers from
InitWith(T) ==
    /\ is_running = FALSE
    /\ monitor_thread = None
    /\ seen_trade_ids = {}
    /\ big_trades_history = << >>
    /\ tracked_markets = << >>
    /\ alert_callbacks = << >>
    /\ size_threshold = DefaultSizeThreshold
    /\ value_threshold = DefaultValueThreshold
    /\ stats = [ total_trades_checked |-> 0, big_trades_detected |-> 0,
                 alerts_sent |-> 0, markets_monitored |-> 0,
                 start_time |-> 0 ]
    /\ opc = "idle"
    /\ oarg = << >>
    /\ worker = [t \in T |-> InitWorker]
    /\ at_stop = [t \in T |-> {}]
    /\ InitApart(T)
    /\ clock = 0
    /\ ret = NoReturn
    /\ orderbook_history = << >>
    /\ spread_history = << >>

Init == InitWith(OneThread)

(* ------------------------- the owner's calls -------------------------- *)
\* add_alert_callback(callback)
add_alert_callback(c) ==
    /\ opc = "idle"
    /\ Len(alert_callbacks) < MaxCallbacks
    /\ alert_callbacks' = Append(alert_callbacks, c)
    /\ UNCHANGED << is_running, monitor_thread, seen_trade_ids,
                    big_trades_history, tracked_markets, size_threshold,
                    value_threshold, stats, opc, worker >>
    /\ UNCHANGED others

\* a set_thresholds that puts back the default size threshold when none is
\* passed
set_thresholds_or_default(s, v) ==
    /\ opc = "idle"
    /\ size_threshold' = IF s # << >> THEN s[1] ELSE DefaultSizeThreshold
    /\ opc' = "set_value"
    /\ oarg' = v
    /\ UNCHANGED << is_running, monitor_thread, seen_trade_ids,
                    big_trades_history, tracked_markets, alert_callbacks,
                    value_threshold, stats, worker >>
    /\ UNCHANGED << ret, orderbook_history, spread_history, at_stop, apart, clock >>

\* set_thresholds(size_threshold, value_threshold), its first statement: an
\* argument is << >> for None and << x >> for the number x
set_thresholds(s, v) ==
    /\ opc = "idle"
    /\ size_threshold' = IF s # << >> THEN s[1] ELSE size_threshold
    /\ opc' = "set_value"
    /\ oarg' = v
    /\ UNCHANGED << is_running, monitor_thread, seen_trade_ids,
                    big_trades_history, tracked_markets, alert_callbacks,
                    value_threshold, stats, worker >>
    /\ UNCHANGED << ret, orderbook_history, spread_history, at_stop, apart, clock >>

\* set_thresholds, its second statement
set_thresholds_value ==
    /\ opc = "set_value"
    /\ value_threshold' = IF oarg # << >> THEN oarg[1] ELSE value_threshold
    /\ opc' = "idle"
    /\ oarg' = << >>
    /\ UNCHANGED << is_running, monitor_thread, seen_trade_ids,
                    big_trades_history, tracked_markets, alert_callbacks,
                    size_threshold, stats, worker >>
    /\ UNCHANGED << ret, orderbook_history, spread_history, at_stop, apart, clock >>

\* set_tracked_markets(markets)
set_tracked_markets(m) ==
    /\ opc = "idle"
    /\ tracked_markets' = m
    /\ stats' = [stats EXCEPT !.markets_monitored = Len(m)]
    /\ UNCHANGED << is_running, monitor_thread, seen_trade_ids,
                    big_trades_history, alert_callbacks, size_threshold,
                    value_threshold, opc, worker >>
    /\ UNCHANGED others

\* discover_all_active_markets(limit) on the frame get_markets returned: one
\* market_info per token of each of the first `limit` rows
discover_all_active_markets(df, limit) ==
    Flatten(SubSeq(df, 1, Min(limit, Len(df))))

\* start() without its `if not self.tracked_markets: return`
StartsWithoutMarkets(markets) == FALSE

\* `if not self.tracked_markets:` in start(): nothing to monitor
NothingToMonitor(markets) == markets = << >>

\* the thread object threading.Thread(...) makes: a new one
NewThread == CHOOSE t \in DOMAIN worker : worker[t].pc = "none"

\* start() without its `if self.is_running: return`
start_unguarded(auto_discover, market_limit, df) ==
    /\ opc = "idle"
    /\ LET discovering == auto_discover /\ tracked_markets = << >>
           markets == IF discovering
                      THEN discover_all_active_markets(df, market_limit)
                      ELSE tracked_markets
       IN  /\ tracked_markets' = markets
           /\ IF NothingToMonitor(markets)
              THEN /\ stats' = [stats EXCEPT !.markets_monitored =
                                   IF discovering THEN 0 ELSE @]
                   /\ UNCHANGED << is_running, monitor_thread, worker >>
              ELSE /\ \E t \in DOMAIN worker : worker[t].pc = "none"
                   /\ is_running' = TRUE
                   /\ stats' = [stats EXCEPT
                                  !.markets_monitored =
                                      IF discovering THEN Len(markets) ELSE @,
                                  !.start_time = @ + 1]
                   /\ monitor_thread' = NewThread
                   /\ worker' = [worker EXCEPT ![NewThread] =
                                    [InitWorker EXCEPT !.pc = "while"]]
           /\ UNCHANGED << seen_trade_ids, big_trades_history,
                           alert_callbacks, size_threshold,
                           value_threshold, opc >>
    /\ UNCHANGED others

\* start(auto_discover, market_limit); df is what get_markets would return
start(auto_discover, market_limit, df) ==
    /\ opc = "idle"
    /\ IF is_running
       THEN UNCHANGED vars
       ELSE LET discovering == auto_discover /\ tracked_markets = << >>
                markets == IF discovering
                           THEN discover_all_active_markets(df, market_limit)
                           ELSE tracked_markets
            IN  /\ tracked_markets' = markets
                /\ IF NothingToMonitor(markets)
                   THEN /\ stats' = [stats EXCEPT !.markets_monitored =
                                        IF discovering THEN 0 ELSE @]
                        /\ UNCHANGED << is_running, monitor_thread, worker >>
                   ELSE /\ \E t \in DOMAIN worker : worker[t].pc = "none"
                        /\ is_running' = TRUE
                        /\ stats' = [stats EXCEPT
                                       !.markets_monitored =
                                           IF discovering THEN Len(markets) ELSE @,
                                       !.start_time = @ + 1]
                        /\ monitor_thread' = NewThread
                        /\ worker' = [worker EXCEPT ![NewThread] =
                                         [InitWorker EXCEPT !.pc = "while"]]
                /\ UNCHANGED << seen_trade_ids, big_trades_history,
                                alert_callbacks, size_threshold,
                                value_threshold, opc >>
    /\ UNCHANGED others

\* stop() without its `if not self.is_running: return`
stop_unguarded ==
    /\ opc = "idle"
    /\ is_running' = FALSE
    /\ opc' = IF monitor_thread # None THEN "join" ELSE "idle"
    /\ UNCHANGED << monitor_thread, seen_trade_ids, big_trades_history,
                    tracked_markets, alert_callbacks, size_threshold,
                    value_threshold, stats, worker >>
    /\ UNCHANGED others

\* what the history held when stop() was called for the current thread
AtStop ==
    IF monitor_thread # None
    THEN [at_stop EXCEPT ![monitor_thread] = Detected]
    ELSE at_stop

\* stop(), up to the join: the early return, or the flag is cleared
stop ==
    /\ opc = "idle"
    /\ IF ~is_running
       THEN UNCHANGED vars
       ELSE /\ is_running' = FALSE
            /\ opc' = IF monitor_thread # None THEN "join" ELSE "idle"
            /\ at_stop' = AtStop
            /\ UNCHANGED << monitor_thread, seen_trade_ids, big_trades_history,
                            tracked_markets, alert_callbacks, size_threshold,
                            value_threshold, stats, worker >>
    /\ UNCHANGED << oarg, ret, orderbook_history, spread_history, clock,
                    apart >>

\* Thread.join() without a timeout returns only when the thread ended
JoinWithoutTimeout(t) == worker[t].pc = "done"

\* Thread.join(timeout=5) can return: the thread ended, or the timeout passed
JoinReturns(t) == worker[t].pc = "done" \/ TRUE

\* stop(), the join returning
stop_join ==
    /\ opc = "join"
    /\ JoinReturns(monitor_thread)
    /\ opc' = "idle"
    /\ UNCHANGED << is_running, monitor_thread, seen_trade_ids,
                    big_trades_history, tracked_markets, alert_callbacks,
                    size_threshold, value_threshold, stats, worker >>
    /\ UNCHANGED others

\* a clear_history that resets start_time with the counters
clear_history_and_start_time ==
    /\ opc \in {"idle", "clear_seen", "clear_checked", "clear_detected",
                "clear_sent"}
    /\ CASE opc = "idle" ->
              /\ big_trades_history' = << >>
              /\ opc' = "clear_seen"
              /\ UNCHANGED << seen_trade_ids, stats >>
         [] opc = "clear_seen" ->
              /\ seen_trade_ids' = {}
              /\ opc' = "clear_checked"
              /\ UNCHANGED << big_trades_history, stats >>
         [] opc = "clear_checked" ->
              /\ stats' = [stats EXCEPT !.total_trades_checked = 0]
              /\ opc' = "clear_detected"
              /\ UNCHANGED << big_trades_history, seen_trade_ids >>
         [] opc = "clear_detected" ->
              /\ stats' = [stats EXCEPT !.big_trades_detected = 0]
              /\ opc' = "clear_sent"
              /\ UNCHANGED << big_trades_history, seen_trade_ids >>
         [] opc = "clear_sent" ->
              /\ stats' = [stats EXCEPT !.alerts_sent = 0, !.start_time = 0]
              /\ opc' = "idle"
              /\ UNCHANGED << big_trades_history, seen_trade_ids >>
    /\ UNCHANGED << is_running, monitor_thread, tracked_markets,
                    alert_callbacks, size_threshold, value_threshold, worker >>
    /\ UNCHANGED others

\* clear_history(): five statements, each a write of its own
clear_history ==
    /\ opc \in {"idle", "clear_seen", "clear_checked", "clear_detected",
                "clear_sent"}
    /\ CASE opc = "idle" ->
              /\ big_trades_history' = << >>
              /\ opc' = "clear_seen"
              /\ UNCHANGED << seen_trade_ids, stats >>
         [] opc = "clear_seen" ->
              /\ seen_trade_ids' = {}
              /\ opc' = "clear_checked"
              /\ UNCHANGED << big_trades_history, stats >>
         [] opc = "clear_checked" ->
              /\ stats' = [stats EXCEPT !.total_trades_checked = 0]
              /\ opc' = "clear_detected"
              /\ UNCHANGED << big_trades_history, seen_trade_ids >>
         [] opc = "clear_detected" ->
              /\ stats' = [stats EXCEPT !.big_trades_detected = 0]
              /\ opc' = "clear_sent"
              /\ UNCHANGED << big_trades_history, seen_trade_ids >>
         [] opc = "clear_sent" ->
              /\ stats' = [stats EXCEPT !.alerts_sent = 0]
              /\ opc' = "idle"
              /\ UNCHANGED << big_trades_history, seen_trade_ids >>
    /\ UNCHANGED << is_running, monitor_thread, tracked_markets,
                    alert_callbacks, size_threshold, value_threshold, worker >>
    /\ UNCHANGED others

(* ----------------------- a worker: _monitor_loop ---------------------- *)
\* what a step of thread t leaves alone besides the attributes it names
Put(t, r) == worker' = [worker EXCEPT ![t] = r]

\* the iteration of `for market_info in self.tracked_markets` reading
\* self.tracked_markets anew at each market
LiveList(t) == tracked_markets

\* the list the cycle's `for` statement iterates: the object
\* self.tracked_markets was bound to when the statement began
CycleList(t) == worker[t].mlist

\* token_id = market_info.get("token_id")
CurToken(t) == worker[t].token
CurOrder(t) == worker[t].book[worker[t].side][worker[t].oidx]
CurSide(t) == IF worker[t].side = "bids" THEN "BID" ELSE "ASK"
\* order_id = f"{token_id}_BID_{price}_{size}"
CurId(t) == OrderId(CurToken(t), CurSide(t), CurOrder(t).price, CurOrder(t).size)
\* big_order, enriched by _handle_big_trade
CurRecord(t) ==
    [ token_id |-> CurToken(t), side |-> CurSide(t),
      price |-> CurOrder(t).price, size |-> CurOrder(t).size,
      value |-> CurOrder(t).size * CurOrder(t).price, type |-> "LIMIT_ORDER" ]
RecordId(r) == OrderId(r.token_id, r.side, r.price, r.size)

\* a loop that does not test the flag: `while True:`
LoopsForever == TRUE

\* the test of `while self.is_running:`
KeepsRunning == is_running

\* `while self.is_running:` and the start of a cycle's `for market_info in
\* self.tracked_markets`
while_running(t) ==
    /\ worker[t].pc = "while"
    /\ IF KeepsRunning
       THEN Put(t, [worker[t] EXCEPT !.pc = "for_market",
                       !.mlist = tracked_markets, !.midx = 1, !.visits = << >>,
                       !.st0 = size_threshold, !.vt0 = value_threshold])
       ELSE Put(t, [InitWorker EXCEPT !.pc = "done"])
    /\ UNCHANGED << attrs, opc >>
    /\ UNCHANGED others

\* the next market of the cycle
NextMarket(w, outcome) ==
    [w EXCEPT !.pc = "for_market", !.midx = @ + 1, !.book = NoBook,
              !.token = "",
              !.side = "bids", !.oidx = 0, !.called = << >>, !.base = 0,
              !.checked0 = 0, !.seen0 = {}, !.visits = Append(@, outcome)]

\* the head of the market loop: exhausted, `if not self.is_running: break`,
\* `if not token_id: continue`, or the fetch is called
for_market(t) ==
    /\ worker[t].pc = "for_market"
    /\ IF worker[t].midx > Len(CycleList(t)) \/ ~is_running
       THEN Put(t, [worker[t] EXCEPT !.pc = "sleep"])
       ELSE IF CycleList(t)[worker[t].midx] = ""
       THEN Put(t, NextMarket(worker[t], "skip"))
       ELSE Put(t, [worker[t] EXCEPT !.pc = "get_orderbook",
                       !.token = CycleList(t)[worker[t].midx]])
    /\ UNCHANGED << attrs, opc >>
    /\ UNCHANGED others

\* an exception of the loop body leaving _monitor_loop: the thread ends
LoopErrorEndsWorker(w) == [InitWorker EXCEPT !.pc = "done"]

\* what the worker does when the loop body raises outside the market's try:
\* `except Exception as e: print(...); time.sleep(self.poll_interval)`, and
\* the while loop goes on
AfterLoopError(w) == [w EXCEPT !.pc = "sleep", !.visits = Append(@, "error")]

\* a statement of the loop body outside the market's try raises (a print, or
\* market_info.get on a market_info that is no dict)
loop_raises(t) ==
    /\ worker[t].pc = "for_market"
    /\ Put(t, AfterLoopError(worker[t]))
    /\ UNCHANGED << attrs, opc >>
    /\ UNCHANGED others

\* the counters are below the bound of the model
BelowBound ==
    /\ stats.total_trades_checked < MaxCount
    /\ stats.big_trades_detected < MaxCount
    /\ stats.alerts_sent < MaxCount

\* self.client.get_orderbook(token_id) returns b
get_orderbook_returns(t, b) ==
    /\ worker[t].pc = "get_orderbook"
    /\ b = NoBook \/ BelowBound
    /\ Put(t, [worker[t] EXCEPT !.pc = "for_order", !.book = b,
                                !.side = "bids", !.oidx = 1,
                                !.checked0 = stats.total_trades_checked,
                                !.seen0 = seen_trade_ids])
    /\ UNCHANGED << attrs, opc >>
    /\ UNCHANGED others

\* the fetch's exception reaching the handler of the cycle instead:
\* `except Exception as e: ...; time.sleep(self.poll_interval)`
FetchErrorEndsCycle(w) ==
    [w EXCEPT !.pc = "sleep", !.visits = Append(@, "fail")]

\* what the worker does when the fetch raises: `except Exception: pass`
AfterFetchError(w) == NextMarket(w, "fail")

\* a loop that stops tracking the market whose fetch raised
get_orderbook_raises_untracks(t) ==
    /\ worker[t].pc = "get_orderbook"
    /\ Put(t, AfterFetchError(worker[t]))
    /\ tracked_markets' = << >>
    /\ UNCHANGED << is_running, monitor_thread, seen_trade_ids,
                    big_trades_history, alert_callbacks, size_threshold,
                    value_threshold, stats, opc >>
    /\ UNCHANGED others

\* self.client.get_orderbook(token_id) raises
get_orderbook_raises(t) ==
    /\ worker[t].pc = "get_orderbook"
    /\ Put(t, AfterFetchError(worker[t]))
    /\ UNCHANGED << attrs, opc >>
    /\ UNCHANGED others

\* the next order of the orderbook
NextOrder(w) == [w EXCEPT !.pc = "for_order", !.oidx = @ + 1, !.tmp = 0,
                          !.cidx = 0]

\* the ValueError of float() leaving _detect_big_order_from_orderbook, to the
\* `except Exception: pass` around the market
BadOrderEndsMarket(w) == NextMarket(w, "fail")

\* what the worker does when float() raises on a level's size or price:
\* `except (ValueError, TypeError): continue`
AfterBadOrder(w) == NextOrder(w)

\* the head of `for bid in bids` / `for ask in asks`, up to the threshold test
for_order(t) ==
    /\ worker[t].pc = "for_order"
    /\ IF worker[t].oidx > Len(worker[t].book[worker[t].side])
       THEN IF worker[t].side = "bids"
            THEN Put(t, [worker[t] EXCEPT !.side = "asks", !.oidx = 1])
            ELSE Put(t, NextMarket(worker[t], "ok"))
       ELSE IF ~CurOrder(t).num
       THEN Put(t, AfterBadOrder(worker[t]))
       ELSE IF IsBig(CurOrder(t).size, CurOrder(t).price,
                     size_threshold, value_threshold)
       THEN Put(t, [worker[t] EXCEPT !.pc = "checked_read"])
       ELSE Put(t, NextOrder(worker[t]))
    /\ UNCHANGED << attrs, opc >>
    /\ UNCHANGED others

\* self.stats["total_trades_checked"] += 1, the read
checked_read(t) ==
    /\ worker[t].pc = "checked_read"
    /\ Put(t, [worker[t] EXCEPT !.pc = "checked_write",
                                !.tmp = stats.total_trades_checked])
    /\ UNCHANGED << attrs, opc >>
    /\ UNCHANGED others

\* self.stats["total_trades_checked"] += 1, the write
checked_write(t) ==
    /\ worker[t].pc = "checked_write"
    /\ stats' = [stats EXCEPT !.total_trades_checked = worker[t].tmp + 1]
    /\ Put(t, [worker[t] EXCEPT !.pc = "seen_test", !.tmp = 0])
    /\ UNCHANGED << is_running, monitor_thread, seen_trade_ids,
                    big_trades_history, tracked_markets, alert_callbacks,
                    size_threshold, value_threshold, opc >>
    /\ UNCHANGED others

\* `if order_id not in self.seen_trade_ids:`
seen_test(t) ==
    /\ worker[t].pc = "seen_test"
    /\ IF CurId(t) \notin seen_trade_ids
       THEN Put(t, [worker[t] EXCEPT !.pc = "seen_add"])
       ELSE Put(t, NextOrder(worker[t]))
    /\ UNCHANGED << attrs, opc >>
    /\ UNCHANGED others

\* self.seen_trade_ids.add(order_id)
seen_add(t) ==
    /\ worker[t].pc = "seen_add"
    /\ seen_trade_ids' = seen_trade_ids \cup {CurId(t)}
    /\ Put(t, [worker[t] EXCEPT !.pc = "detected_read"])
    /\ UNCHANGED << is_running, monitor_thread, big_trades_history,
                    tracked_markets, alert_callbacks, size_threshold,
                    value_threshold, stats, opc >>
    /\ UNCHANGED others

\* _handle_big_trade: self.stats["big_trades_detected"] += 1, the read
detected_read(t) ==
    /\ worker[t].pc = "detected_read"
    /\ Put(t, [worker[t] EXCEPT !.pc = "detected_write",
                                !.tmp = stats.big_trades_detected])
    /\ UNCHANGED << attrs, opc >>
    /\ UNCHANGED others

\* _handle_big_trade: self.stats["big_trades_detected"] += 1, the write
detected_write(t) ==
    /\ worker[t].pc = "detected_write"
    /\ stats' = [stats EXCEPT !.big_trades_detected = worker[t].tmp + 1]
    /\ Put(t, [worker[t] EXCEPT !.pc = "history_append", !.tmp = 0])
    /\ UNCHANGED << is_running, monitor_thread, seen_trade_ids,
                    big_trades_history, tracked_markets, alert_callbacks,
                    size_threshold, value_threshold, opc >>
    /\ UNCHANGED others

\* `for callback in self.alert_callbacks`: the consumer at position i is
\* called, or the list is exhausted and the order is done
NextCallback(w, i) ==
    IF i <= Len(alert_callbacks)
    THEN [w EXCEPT !.pc = "callback", !.cidx = i, !.tmp = 0]
    ELSE NextOrder(w)

\* _handle_big_trade: self.big_trades_history.append(big_trade), and
\* _send_alerts is entered
history_append(t) ==
    /\ worker[t].pc = "history_append"
    /\ big_trades_history' =
           DequeAppend(big_trades_history, CurRecord(t), HistoryMaxLen)
    /\ Put(t, NextCallback([worker[t] EXCEPT !.called = << >>,
                                !.base = stats.alerts_sent], 1))
    /\ UNCHANGED << is_running, monitor_thread, seen_trade_ids,
                    tracked_markets, alert_callbacks, size_threshold,
                    value_threshold, stats, opc >>
    /\ UNCHANGED others

\* _send_alerts: callback(big_trade) returns
callback_returns(t) ==
    /\ worker[t].pc = "callback"
    /\ Put(t, [worker[t] EXCEPT !.pc = "sent_read",
                  !.called = Append(@, <<alert_callbacks[worker[t].cidx], "ok">>)])
    /\ UNCHANGED << attrs, opc >>
    /\ UNCHANGED others

\* the consumer's exception leaving _send_alerts, to the `except Exception:
\* pass` around the market
CallbackErrorEndsMarket(w) == NextMarket(w, "fail")

\* what _send_alerts does when the consumer at position w.cidx raised:
\* `except Exception as e: print(...)`, and the loop goes on
AfterCallbackError(w) ==
    NextCallback([w EXCEPT !.called =
                                Append(@, <<alert_callbacks[w.cidx], "raised">>)],
                 w.cidx + 1)

\* _send_alerts: callback(big_trade) raises
callback_raises(t) ==
    /\ worker[t].pc = "callback"
    /\ Put(t, AfterCallbackError(worker[t]))
    /\ UNCHANGED << attrs, opc >>
    /\ UNCHANGED others

\* _send_alerts: self.stats["alerts_sent"] += 1, the read
sent_read(t) ==
    /\ worker[t].pc = "sent_read"
    /\ Put(t, [worker[t] EXCEPT !.pc = "sent_write",
                                !.tmp = stats.alerts_sent])
    /\ UNCHANGED << attrs, opc >>
    /\ UNCHANGED others

\* _send_alerts: self.stats["alerts_sent"] += 1, the write
sent_write(t) ==
    /\ worker[t].pc = "sent_write"
    /\ stats' = [stats EXCEPT !.alerts_sent = worker[t].tmp + 1]
    /\ Put(t, NextCallback(worker[t], worker[t].cidx + 1))
    /\ UNCHANGED << is_running, monitor_thread, seen_trade_ids,
                    big_trades_history, tracked_markets, alert_callbacks,
                    size_threshold, value_threshold, opc >>
    /\ UNCHANGED others

\* the end of a cycle: cycle_time, time.sleep(max(0, poll_interval - cycle_time))
sleep(t) ==
    /\ worker[t].pc = "sleep"
    /\ Put(t, [worker[t] EXCEPT !.pc = "while", !.mlist = << >>, !.midx = 0,
                                !.visits = << >>, !.st0 = 0, !.vt0 = 0])
    /\ UNCHANGED << attrs, opc >>
    /\ UNCHANGED others


\* the steps of the poll loop around the orders, with fetches returning B
Loop(t, B) ==
    \/ while_running(t)
    \/ for_market(t)
    \/ \E b \in B : get_orderbook_returns(t, b)
    \/ get_orderbook_raises(t)
    \/ for_order(t)
    \/ sleep(t)

\* _detect_big_order_from_orderbook and _handle_big_trade on one big order
Detect(t) ==
    \/ checked_read(t)
    \/ checked_write(t)
    \/ seen_test(t)
    \/ seen_add(t)
    \/ detected_read(t)
    \/ detected_write(t)
    \/ history_append(t)

\* _send_alerts
Alert(t) ==
    \/ callback_returns(t)
    \/ callback_raises(t)
    \/ sent_read(t)
    \/ sent_write(t)

(* One worker, one market with one big bid, and the whole of the owner's  *)
(* interface: consumers are registered and the history is cleared before,  *)
(* between and during the worker's steps.                                  *)
Next ==
    \/ \E c \in Consumers : add_alert_callback(c)
    \/ \E m \in MarketLists : set_tracked_markets(m)
    \/ \E a \in BOOLEAN, l \in Limits, df \in MarketFrames : start(a, l, df)
    \/ stop
    \/ stop_join
    \/ clear_history
    \/ \E t \in OneThread : Loop(t, Books) \/ Detect(t) \/ Alert(t)

Spec == Init /\ [][Next]_vars

(* One worker's cycle over several markets, with fetches that fail, orders *)
(* that are not numeric and a stop() in the middle.                        *)
NextCycle ==
    \/ \E m \in MarketListsCycle : set_tracked_markets(m)
    \/ \E a \in BOOLEAN, l \in Limits, df \in MarketFramesCycle :
              start(a, l, df)
    \/ stop
    \/ stop_join
    \/ \E t \in OneThread : Loop(t, BooksCycle) \/ Detect(t)

SpecCycle == Init /\ [][NextCycle]_vars

(* The lifecycle with two thread objects: a worker that outlives stop()'s   *)
(* join and the worker of the next start().  No consumer is registered.    *)
InitLife == InitWith(TwoThreads)

NextLife ==
    \/ \E m \in MarketLists : set_tracked_markets(m)
    \/ \E a \in BOOLEAN, l \in Limits, df \in MarketFrames : start(a, l, df)
    \/ stop
    \/ stop_join
    \/ \E t \in TwoThreads : Loop(t, Books) \/ Detect(t)

SpecLife == InitLife /\ [][NextLife]_vars

(* The same lifecycle with fetches that return an empty orderbook, raise   *)
(* or never return.                                                        *)
NextStop ==
    \/ \E m \in MarketLists : set_tracked_markets(m)
    \/ \E a \in BOOLEAN, l \in Limits, df \in MarketFrames : start(a, l, df)
    \/ stop
    \/ stop_join
    \/ \E t \in TwoThreads : Loop(t, {NoBook})

SpecStop == InitLife /\ [][NextStop]_vars

(* Discovery at start(): markets of two tokens, under limits of one and two *)
(* markets.                                                                *)
NextDiscover ==
    \/ set_tracked_markets(<< >>)
    \/ \E a \in BOOLEAN, l \in Limits, df \in MarketFramesPairs :
              start(a, l, df)
    \/ stop
    \/ stop_join
    \/ \E t \in OneThread : Loop(t, {NoBook})

SpecDiscover == Init /\ [][NextDiscover]_vars

(* One worker with consumers, and an owner who makes every call that       *)
(* configures the monitor, before, between and during the worker's steps.  *)
NextOwner ==
    \/ \E c \in Consumers : add_alert_callback(c)
    \/ \E s \in SizeArgs, v \in ValueArgs : set_thresholds(s, v)
    \/ set_thresholds_value
    \/ \E m \in MarketLists : set_tracked_markets(m)
    \/ \E a \in BOOLEAN, l \in Limits, df \in MarketFrames : start(a, l, df)
    \/ stop
    \/ stop_join
    \/ \E t \in OneThread : Loop(t, Books) \/ Detect(t) \/ Alert(t)

SpecOwner == Init /\ [][NextOwner]_vars

(* The timing of the loop: each cycle as one step that takes some time and *)
(* ends or raises, then the sleep.                                         *)

\* the clock stops cycles from starting at MaxClock
MaxClock == 12
\* what a cycle can take, in seconds, and by how much a sleep can overrun
Durations == {0, 1, 3, 5}
Overruns == {0, 1}

Max(a, b) == IF a > b THEN a ELSE b

\* a sleep of the whole interval, whatever the cycle took
FullInterval(interval, elapsed) == interval

\* sleep_time = max(0, self.poll_interval - cycle_time)
SleepTime(interval, elapsed) == Max(0, interval - elapsed)

\* `while self.is_running:`, cycle += 1, cycle_start = time.time()
cycle_begins(t) ==
    /\ worker[t].pc = "while"
    /\ IF KeepsRunning
       THEN /\ clock < MaxClock
            /\ Put(t, [worker[t] EXCEPT !.pc = "cycle", !.cycle = @ + 1,
                                        !.cycle_start = clock])
       ELSE Put(t, [InitWorker EXCEPT !.pc = "done"])
    /\ UNCHANGED << attrs, opc, oarg, ret, orderbook_history, spread_history,
                    at_stop, apart, clock >>

\* the markets of the cycle, taking d seconds in all: the loop is left, or
\* an exception reaches the outer `except Exception`
cycle_takes(t, d, raised) ==
    /\ worker[t].pc = "cycle"
    /\ clock' = clock + d
    /\ Put(t, [worker[t] EXCEPT
                  !.pc = IF raised THEN "cycle_error" ELSE "cycle_end"])
    /\ UNCHANGED << attrs, opc, oarg, ret, orderbook_history, spread_history,
                    at_stop, apart >>

\* cycle_time = time.time() - cycle_start; sleep_time = max(0, ...);
\* `if sleep_time > 0:`
cycle_ends(t) ==
    /\ worker[t].pc = "cycle_end"
    /\ LET cycle_time == clock - worker[t].cycle_start
           sleep_time == SleepTime(PollInterval, cycle_time)
       IN  Put(t, [worker[t] EXCEPT
                     !.cycle_time = cycle_time,
                     !.sleep_time = sleep_time,
                     !.pc = IF sleep_time > 0 THEN "time_sleep" ELSE "while"])
    /\ UNCHANGED << attrs, opc >>
    /\ UNCHANGED others

\* time.sleep(sleep_time) returns, after sleep_time seconds or later
time_sleep(t, late) ==
    /\ worker[t].pc = "time_sleep"
    /\ clock' = clock + worker[t].sleep_time + late
    /\ Put(t, [worker[t] EXCEPT !.pc = "while"])
    /\ UNCHANGED << attrs, opc, oarg, ret, orderbook_history, spread_history,
                    at_stop, apart >>

\* `except Exception as e:` time.sleep(self.poll_interval)
error_sleep(t, late) ==
    /\ worker[t].pc = "cycle_error"
    /\ clock' = clock + PollInterval + late
    /\ Put(t, [worker[t] EXCEPT !.pc = "while"])
    /\ UNCHANGED << attrs, opc, oarg, ret, orderbook_history, spread_history,
                    at_stop, apart >>

NextSleep ==
    \/ set_tracked_markets(<<"t1">>)
    \/ \E l \in Limits, df \in MarketFrames : start(FALSE, l, df)
    \/ stop
    \/ stop_join
    \/ \E t \in OneThread : cycle_begins(t)
    \/ \E t \in OneThread, d \in Durations, raised \in BOOLEAN :
              cycle_takes(t, d, raised)
    \/ \E t \in OneThread : cycle_ends(t)
    \/ \E t \in OneThread, late \in Overruns : time_sleep(t, late)
    \/ \E t \in OneThread, late \in Overruns : error_sleep(t, late)

SpecSleep == Init /\ [][NextSleep]_vars

(* Restarts with three thread objects, on one market whose orderbook has    *)
(* one big bid: the worker of a first start() can outlive two stop() calls. *)
ThreeThreads == {"w1", "w2", "w3"}

NextRestart ==
    \/ set_tracked_markets(<<"t1">>)
    \/ \E l \in Limits, df \in MarketFrames : start(FALSE, l, df)
    \/ stop
    \/ stop_join
    \/ \E t \in ThreeThreads : Loop(t, {BidBook}) \/ Detect(t)

SpecRestart == InitWith(ThreeThreads) /\ [][NextRestart]_vars

\* the join's timeout passes in the end
FairStop == SpecStop /\ WF_vars(stop_join)

(* One worker and every exception a cycle can meet: fetches and consumers   *)
(* that raise, orders that are not numeric and a loop body that raises.     *)
NextLoop ==
    \/ \E c \in Consumers : add_alert_callback(c)
    \/ \E m \in MarketLists : set_tracked_markets(m)
    \/ \E a \in BOOLEAN, l \in Limits, df \in MarketFrames : start(a, l, df)
    \/ stop
    \/ stop_join
    \/ \E t \in OneThread : Loop(t, Books) \/ Detect(t) \/ Alert(t)
    \/ \E t \in OneThread : loop_raises(t)

SpecLoop == Init /\ [][NextLoop]_vars

\* the worker thread is scheduled, its fetches return or raise (the HTTP
\* request has a timeout), its consumers return or raise and its sleep ends
FairLoop ==
    SpecLoop /\ \A t \in OneThread : WF_vars(Loop(t, Books) \/ Detect(t) \/ Alert(t))

(* One worker, and an owner who changes the thresholds and the tracked list *)
(* before, between and during the worker's cycles.                          *)
NextConfig ==
    \/ \E s \in SizeArgs, v \in ValueArgs : set_thresholds(s, v)
    \/ set_thresholds_value
    \/ \E m \in MarketListsConfig : set_tracked_markets(m)
    \/ \E a \in BOOLEAN, l \in Limits, df \in MarketFrames : start(a, l, df)
    \/ stop
    \/ stop_join
    \/ \E t \in OneThread : Loop(t, Books) \/ Detect(t)

SpecConfig == Init /\ [][NextConfig]_vars

(* The rings at their capacity.  BigTradeMonitor is running, its worker     *)
(* between two cycles, after cycles that each found one new big bid of t1;  *)
(* TradeMonitor has polled t1 as often.  A cycle is one step here: the      *)
(* worker is not interrupted inside it.                                     *)

\* the record of the k-th big bid of t1: size 500 + k at price 0.1
Trade(k) ==
    [ token_id |-> "t1", side |-> "BID", price |-> 1,
      size |-> DefaultSizeThreshold + k, value |-> DefaultSizeThreshold + k,
      type |-> "LIMIT_ORDER" ]

\* what get_spread and get_orderbook return for t1 at the logical instant k
SpreadAt(k) == [ token_id |-> "t1", timestamp |-> k ]
OrderbookAt(k) ==
    [ token_id |-> "t1", bids |-> << >>, asks |-> << >>, timestamp |-> k ]

\* the instant of the next item of a ring of timestamped items
NextStamp(q) == IF q = << >> THEN 1 ELSE q[Len(q)].timestamp + 1

InitRing ==
    /\ is_running = TRUE
    /\ monitor_thread = "w1"
    /\ seen_trade_ids =
           { RecordId(Trade(k)) : k \in 1..(HistoryMaxLen - MaxCount) }
    /\ big_trades_history = [k \in 1..(HistoryMaxLen - MaxCount) |-> Trade(k)]
    /\ tracked_markets = <<"t1">>
    /\ alert_callbacks = << >>
    /\ size_threshold = DefaultSizeThreshold
    /\ value_threshold = DefaultValueThreshold
    /\ stats = [ total_trades_checked |-> HistoryMaxLen - MaxCount,
                 big_trades_detected |-> HistoryMaxLen - MaxCount,
                 alerts_sent |-> 0, markets_monitored |-> 1,
                 start_time |-> 1 ]
    /\ opc = "idle"
    /\ oarg = << >>
    /\ worker = [t \in OneThread |-> [InitWorker EXCEPT !.pc = "while"]]
    /\ at_stop = [t \in OneThread |-> {}]
    /\ InitApart(OneThread)
    /\ clock = 0
    /\ ret = NoReturn
    /\ orderbook_history =
           [k \in 1..(OrderbookMaxLen - MaxCount) |-> OrderbookAt(k)]
    /\ spread_history = [k \in 1..(SpreadMaxLen - MaxCount) |-> SpreadAt(k)]

\* the big bid the next cycle's fetch returns: a new one
NewBids ==
    { [ num |-> TRUE, price |-> 1,
        size |-> DefaultSizeThreshold + stats.big_trades_detected + 1 ] }

\* cycles run while the history is within MaxCount of empty or of its capacity
RingBound ==
    \/ stats.big_trades_detected < MaxCount
    \/ /\ Len(big_trades_history) >= HistoryMaxLen - MaxCount
       /\ stats.big_trades_detected < HistoryMaxLen + MaxCount

\* one whole cycle of _monitor_loop, from `while self.is_running` to the end
\* of its sleep: the fetch of the tracked market returns the one bid o, big
\* and not seen before, and no consumer is registered
poll_cycle(t, o) ==
    /\ RingBound
    /\ worker[t].pc = "while"
    /\ is_running
    /\ tracked_markets = <<"t1">>
    /\ alert_callbacks = << >>
    /\ IsBig(o.size, o.price, size_threshold, value_threshold)
    /\ OrderId("t1", "BID", o.price, o.size) \notin seen_trade_ids
    /\ stats' = [stats EXCEPT !.total_trades_checked = @ + 1,
                              !.big_trades_detected = @ + 1]
    /\ seen_trade_ids' =
           seen_trade_ids \cup { OrderId("t1", "BID", o.price, o.size) }
    /\ big_trades_history' =
           DequeAppend(big_trades_history,
                       [ token_id |-> "t1", side |-> "BID", price |-> o.price,
                         size |-> o.size, value |-> o.size * o.price,
                         type |-> "LIMIT_ORDER" ],
                       HistoryMaxLen)
    /\ UNCHANGED << is_running, monitor_thread, tracked_markets,
                    alert_callbacks, size_threshold, value_threshold, opc,
                    worker >>
    /\ UNCHANGED others

\* TradeMonitor._poll_orderbooks on the one tracked token t1, no callback
\* registered and both fetches returning: the spread is stored, then the
\* orderbook
poll_orderbooks ==
    /\ NextStamp(spread_history) <= SpreadMaxLen + MaxCount
    /\ spread_history' =
           DequeAppend(spread_history, SpreadAt(NextStamp(spread_history)),
                       SpreadMaxLen)
    /\ orderbook_history' =
           DequeAppend(orderbook_history,
                       OrderbookAt(NextStamp(orderbook_history)),
                       OrderbookMaxLen)
    /\ UNCHANGED << attrs, opc, oarg, worker, ret, at_stop, apart, clock >>

(* ------------------- TradeMonitor: _poll_orderbooks ------------------- *)
\* the events _poll_orderbooks and _check_large_orders fire
PollEvents == {"spread_change", "orderbook_update", "large_order"}

\* _check_large_orders(self, orderbook, threshold: float = 1000)
LargeOrderThreshold == 1000

\* levels of the orderbooks a poll sees
LargeOrder == [num |-> TRUE, price |-> 1, size |-> 1000]
LargeBook == [bids |-> <<LargeOrder>>, asks |-> << >>]
LargeAskBook == [bids |-> <<BadOrder>>, asks |-> <<LargeOrder>>]
BooksPoll == { NoBook, LargeBook, LargeAskBook }

\* lists passed to TradeMonitor.set_tracked_markets
TokenLists == { << >>, <<"t1">>, <<"t1", "t2">> }

\* the token being polled
PollToken == poller.tracked_markets[poller.tidx]

\* polls of _poll_orderbooks in a behaviour
MaxPolls == 1

\* the poll's record of itself: the tokens whose try was entered, the
\* callbacks of the event being fired that were called and how each ended,
\* and what has raised since the poll began
Polled(p) == [p EXCEPT !.polled = Append(@, p.tracked_markets[p.tidx])]
Invoked(p, outcome) ==
    [p EXCEPT !.log = Append(@, << p.cidx, outcome >>),
              !.raised = IF outcome = "raised" THEN @ \cup {"callback"} ELSE @]
Raised(p) == [p EXCEPT !.raised = @ \cup {"poll"}]

\* TradeMonitor.add_callback(event_type, callback), between two polls
poll_add_callback(e, c) ==
    /\ poller.pc \in {"idle", "returned"}
    /\ Len(poller.callbacks[e]) < MaxCallbacks
    /\ poller' = [poller EXCEPT !.callbacks[e] = Append(@, c), !.pc = "idle"]
    /\ UNCHANGED << attrs, opc, oarg, worker, ret, orderbook_history,
                    spread_history, at_stop, clock, http, positions,
                    pnl_history, closes, replaced >>

\* TradeMonitor.set_tracked_markets(token_ids), between two polls
poll_set_tracked_markets(ms) ==
    /\ poller.pc \in {"idle", "returned"}
    /\ poller' = [poller EXCEPT !.tracked_markets = ms, !.pc = "idle"]
    /\ UNCHANGED << attrs, opc, oarg, worker, ret, orderbook_history,
                    spread_history, at_stop, clock, http, positions,
                    pnl_history, closes, replaced >>

\* what a step of the poll leaves alone besides poller and the two rings
PollFrame ==
    UNCHANGED << attrs, opc, oarg, worker, ret, at_stop, clock, http,
                 positions, pnl_history, closes, replaced >>

\* _poll_orderbooks is called: `if not self.tracked_markets: return`, or
\* `for token_id in self.tracked_markets` begins
poll_begins ==
    /\ poller.pc \in {"idle", "returned"}
    /\ poller.polls < MaxPolls
    /\ poller' = [poller EXCEPT
                     !.pc = IF poller.tracked_markets = << >>
                            THEN "returned" ELSE "get_spread",
                     !.tidx = 1, !.polls = @ + 1, !.polled = << >>,
                     !.log = << >>, !.raised = {}, !.event = "none",
                     !.cidx = 0, !.oidx = 0, !.orderbook = NoBook]
    /\ UNCHANGED << orderbook_history, spread_history >>
    /\ PollFrame

\* the next token of the poll, or the end of _poll_orderbooks
NextToken(p) ==
    [p EXCEPT !.pc = IF p.tidx >= Len(p.tracked_markets)
                     THEN "returned" ELSE "get_spread",
              !.tidx = @ + 1, !.event = "none", !.cidx = 0, !.oidx = 0,
              !.orderbook = NoBook]

\* an exception of a token's poll leaving _poll_orderbooks
PollErrorEndsPoll(p) == [NextToken(p) EXCEPT !.pc = "returned"]

\* what the poll does when a token's try raises:
\* `except Exception as e: print(f"Error polling {token_id}: {e}")`
AfterPollError(p) == NextToken(p)

\* the loop over the callbacks of event e begins
FireEvent(p, e) ==
    [p EXCEPT !.pc = "callbacks", !.event = e, !.cidx = 1, !.log = << >>]

\* the next callback of the event
NextPollCallback(p) == [p EXCEPT !.cidx = @ + 1]

\* a callback's exception leaving the loop over the callbacks
CallbackErrorEndsEvent(p) == [p EXCEPT !.cidx = Len(p.callbacks[p.event]) + 1]

\* what the poll does when a callback raises:
\* `except Exception as e: print(f"Callback error: {e}")`
AfterPollCallbackError(p) == NextPollCallback(p)

\* spread = self.client.get_spread(token_id) returns;
\* self.spread_history.append(spread)
poll_get_spread_returns ==
    /\ poller.pc = "get_spread"
    /\ spread_history' =
           DequeAppend(spread_history,
                       [ token_id |-> PollToken,
                         timestamp |-> NextStamp(spread_history) ],
                       SpreadMaxLen)
    /\ poller' = FireEvent(Polled(poller), "spread_change")
    /\ UNCHANGED orderbook_history
    /\ PollFrame

\* self.client.get_spread(token_id) raises
poll_get_spread_raises ==
    /\ poller.pc = "get_spread"
    /\ poller' = AfterPollError(Raised(Polled(poller)))
    /\ UNCHANGED << orderbook_history, spread_history >>
    /\ PollFrame

\* `for callback in self.callbacks[...]`: the loop is over, and the poll
\* goes on after the event
poll_callbacks_end ==
    /\ poller.pc = "callbacks"
    /\ poller.cidx > Len(poller.callbacks[poller.event])
    /\ poller' =
           CASE poller.event = "spread_change" ->
                  [poller EXCEPT !.pc = "get_orderbook"]
             [] poller.event = "orderbook_update" ->
                  [poller EXCEPT !.pc = "check_large_orders",
                                 !.side = "bids", !.oidx = 1]
             [] poller.event = "large_order" ->
                  [poller EXCEPT !.pc = "check_large_orders", !.oidx = @ + 1]
    /\ UNCHANGED << orderbook_history, spread_history >>
    /\ PollFrame

\* callback(...) returns
poll_callback_returns ==
    /\ poller.pc = "callbacks"
    /\ poller.cidx <= Len(poller.callbacks[poller.event])
    /\ poller' = NextPollCallback(Invoked(poller, "returned"))
    /\ UNCHANGED << orderbook_history, spread_history >>
    /\ PollFrame

\* callback(...) raises
poll_callback_raises ==
    /\ poller.pc = "callbacks"
    /\ poller.cidx <= Len(poller.callbacks[poller.event])
    /\ poller' = AfterPollCallbackError(Invoked(poller, "raised"))
    /\ UNCHANGED << orderbook_history, spread_history >>
    /\ PollFrame

\* orderbook = self.client.get_orderbook(token_id) returns b;
\* self.orderbook_history.append(orderbook)
poll_get_orderbook_returns(b) ==
    /\ poller.pc = "get_orderbook"
    /\ orderbook_history' =
           DequeAppend(orderbook_history,
                       [ token_id |-> PollToken, bids |-> b.bids,
                         asks |-> b.asks,
                         timestamp |-> NextStamp(orderbook_history) ],
                       OrderbookMaxLen)
    /\ poller' = [FireEvent(poller, "orderbook_update") EXCEPT
                     !.orderbook = b]
    /\ UNCHANGED spread_history
    /\ PollFrame

\* self.client.get_orderbook(token_id) raises
poll_get_orderbook_raises ==
    /\ poller.pc = "get_orderbook"
    /\ poller' = AfterPollError(Raised(poller))
    /\ UNCHANGED << orderbook_history, spread_history >>
    /\ PollFrame

\* _check_large_orders at a level: the side is over, float() raises on the
\* level's size, the level is large and its event is fired, or it is not
check_large_orders ==
    /\ poller.pc = "check_large_orders"
    /\ LET levels == poller.orderbook[poller.side]
       IN  poller' =
             IF poller.oidx > Len(levels)
             THEN IF poller.side = "bids"
                  THEN [poller EXCEPT !.side = "asks", !.oidx = 1]
                  ELSE NextToken(poller)
             ELSE IF ~levels[poller.oidx].num
             THEN AfterPollError(Raised(poller))
             ELSE IF levels[poller.oidx].size >= LargeOrderThreshold
             THEN FireEvent(poller, "large_order")
             ELSE [poller EXCEPT !.oidx = @ + 1]
    /\ UNCHANGED << orderbook_history, spread_history >>
    /\ PollFrame

\* TradeMonitor configured between polls, and the polls
NextPoll ==
    \/ \E e \in PollEvents : poll_add_callback(e, "c1")
    \/ \E ms \in TokenLists : poll_set_tracked_markets(ms)
    \/ poll_begins
    \/ poll_get_spread_returns
    \/ poll_get_spread_raises
    \/ poll_callbacks_end
    \/ poll_callback_returns
    \/ poll_callback_raises
    \/ \E b \in BooksPoll : poll_get_orderbook_returns(b)
    \/ poll_get_orderbook_raises
    \/ check_large_orders

SpecPoll == Init /\ [][NextPoll]_vars

\* a read of the history that returns the newest record first
NewestFirst(q) == [i \in 1..Len(q) |-> q[Len(q) + 1 - i]]

\* list(self.big_trades_history): the records from the oldest to the newest
Snapshot(q) == q

\* get_big_trades_dataframe(): the rows of the DataFrame it returns (none
\* for the empty DataFrame of an empty history)
get_big_trades_dataframe ==
    /\ opc = "idle"
    /\ ret' = [ op |-> "get_big_trades_dataframe", arg |-> << >>,
                value |-> Snapshot(big_trades_history) ]
    /\ UNCHANGED << attrs, opc, oarg, worker, orderbook_history,
                    spread_history, at_stop, apart, clock >>

\* the producers of the three rings, and clear_history()
NextRing ==
    \/ \E t \in OneThread, o \in NewBids : poll_cycle(t, o)
    \/ poll_orderbooks
    \/ clear_history

SpecRing == InitRing /\ [][NextRing]_vars

\* the big-trade history, written by the worker's cycles and by
\* clear_history() and read by get_big_trades_dataframe()
NextRead ==
    \/ \E t \in OneThread, o \in NewBids : poll_cycle(t, o)
    \/ get_big_trades_dataframe
    \/ clear_history

SpecRead == InitRing /\ [][NextRead]_vars

(* The big-trade rule: monitors constructed with several thresholds, one    *)
(* worker whose fetches return one level on either side, at sizes and       *)
(* prices on both sides of the thresholds and on them, and calls of         *)
(* _is_big_trade.                                                           *)

\* size_threshold and value_threshold arguments of the constructor
ThresholdPairs == { <<500, 100>>, <<1000, 50>> }

\* order levels and trades: sizes 50, 200, 500, 600 at prices 0.1 and 0.5
LevelsBig == [ num : {TRUE}, price : {1, 5}, size : {50, 200, 500, 600} ]
TradesBig == LevelsBig \cup {BadOrder}
BooksBig ==
    { [bids |-> <<o>>, asks |-> << >>] : o \in LevelsBig } \cup
    { [bids |-> << >>, asks |-> <<o>>] : o \in LevelsBig }

\* the state after __init__(size_threshold=s, value_threshold=v)
InitBig ==
    /\ is_running = FALSE
    /\ monitor_thread = None
    /\ seen_trade_ids = {}
    /\ big_trades_history = << >>
    /\ tracked_markets = << >>
    /\ alert_callbacks = << >>
    /\ \E p \in ThresholdPairs :
           /\ size_threshold = p[1]
           /\ value_threshold = p[2]
    /\ stats = [ total_trades_checked |-> 0, big_trades_detected |-> 0,
                 alerts_sent |-> 0, markets_monitored |-> 0,
                 start_time |-> 0 ]
    /\ opc = "idle"
    /\ oarg = << >>
    /\ worker = [t \in OneThread |-> InitWorker]
    /\ at_stop = [t \in OneThread |-> {}]
    /\ InitApart(OneThread)
    /\ clock = 0
    /\ ret = NoReturn
    /\ orderbook_history = << >>
    /\ spread_history = << >>

\* _is_big_trade(trade): False when float() raises on size or price
is_big_trade(trade) ==
    /\ ret' = [ op |-> "_is_big_trade", arg |-> trade,
                value |-> << IF trade.num
                             THEN IsBig(trade.size, trade.price,
                                        size_threshold, value_threshold)
                             ELSE FALSE >> ]
    /\ UNCHANGED << attrs, opc, oarg, worker, orderbook_history,
                    spread_history, at_stop, apart, clock >>

NextBig ==
    \/ \E m \in MarketLists : set_tracked_markets(m)
    \/ \E a \in BOOLEAN, l \in Limits, df \in MarketFrames : start(a, l, df)
    \/ \E t \in OneThread : Loop(t, BooksBig) \/ Detect(t)
    \/ \E tr \in TradesBig : is_big_trade(tr)

SpecBig == InitBig /\ [][NextBig]_vars

(* Orderbooks with levels that are not numeric, before big levels on either *)
(* side, and _is_big_trade on a trade that is not numeric.                  *)
BadAskBook == [bids |-> <<BadOrder>>, asks |-> <<BadOrder, BigOrder>>]
BooksBad == { NoBook, BadBook, BadAskBook }

NextBad ==
    \/ \E c \in Consumers : add_alert_callback(c)
    \/ \E m \in MarketLists : set_tracked_markets(m)
    \/ \E a \in BOOLEAN, l \in Limits, df \in MarketFrames : start(a, l, df)
    \/ \E t \in OneThread : Loop(t, BooksBad) \/ Detect(t) \/ Alert(t)
    \/ \E tr \in {BadOrder, BigOrder} : is_big_trade(tr)

SpecBad == Init /\ [][NextBad]_vars

(* ----------------- OrderbookClient: _make_request, get_orderbook ------- *)
\* how requests.get, raise_for_status and response.json() can end: with a
\* RequestException (no connection, a timeout, an HTTP error status), with
\* a ValueError of json() that is no RequestException, or with the JSON data
RequestExceptions == {"ConnectionError", "Timeout", "HTTPError"}

\* JSON data: a dict by its keys has, a list, or null
JsonNull == [ type |-> "null", has |-> {}, bids |-> << >>, asks |-> << >> ]
JsonList == [ type |-> "list", has |-> {}, bids |-> << >>, asks |-> << >> ]
JsonEmptyDict == [ type |-> "dict", has |-> {}, bids |-> << >>, asks |-> << >> ]
JsonBids ==
    [ type |-> "dict", has |-> {"bids"}, bids |-> <<BigOrder>>, asks |-> << >> ]
JsonBook ==
    [ type |-> "dict", has |-> {"bids", "asks"}, bids |-> <<SmallOrder>>,
      asks |-> <<BigOrder>> ]

Responses ==
    [ kind : RequestExceptions \cup {"ValueError"}, data : {JsonNull} ]
        \cup [ kind : {"ok"},
               data : {JsonList, JsonEmptyDict, JsonBids, JsonBook} ]

\* the request failed
Failed(r) == r.kind \in RequestExceptions

\* a _make_request without its except clause: the RequestException leaves it
make_request_reraises(r) ==
    IF r.kind = "ok"
    THEN [ raised |-> FALSE, value |-> r.data ]
    ELSE [ raised |-> TRUE, value |-> JsonNull ]

\* _make_request: the JSON data, None after a RequestException, and any
\* other exception leaves it
make_request(r) ==
    IF r.kind = "ok"
    THEN [ raised |-> FALSE, value |-> r.data ]
    ELSE IF r.kind \in RequestExceptions
    THEN [ raised |-> FALSE, value |-> JsonNull ]
    ELSE [ raised |-> TRUE, value |-> JsonNull ]

\* data.get(key, [])
JsonGet(data, key) == IF key \in data.has THEN data[key] ELSE << >>

\* `if data and isinstance(data, dict)`
IsFilledDict(data) == data.type = "dict" /\ data.has # {}

\* the orderbook without bids and asks
EmptyOrderbook(token_id) ==
    [ token_id |-> token_id, bids |-> << >>, asks |-> << >> ]

\* OrderbookClient.get_orderbook(token_id) when its request ends as r (the
\* timestamp left out)
get_orderbook(token_id, r) ==
    LET data == make_request(r)
    IN  IF data.raised
        THEN [ raised |-> TRUE, value |-> EmptyOrderbook(token_id) ]
        ELSE IF IsFilledDict(data.value)
        THEN [ raised |-> FALSE,
               value |-> [ token_id |-> token_id,
                           bids |-> JsonGet(data.value, "bids"),
                           asks |-> JsonGet(data.value, "asks") ] ]
        ELSE [ raised |-> FALSE, value |-> EmptyOrderbook(token_id) ]

\* the worker's `orderbook = self.client.get_orderbook(token_id)` with the
\* client's request ending as r
get_orderbook_requests(t, r) ==
    /\ worker[t].pc = "get_orderbook"
    /\ LET orderbook == get_orderbook(CurToken(t), r)
       IN  /\ orderbook.value.bids = << >> \/ BelowBound
           /\ IF orderbook.raised
              THEN Put(t, AfterFetchError(worker[t]))
              ELSE Put(t, [worker[t] EXCEPT
                              !.pc = "for_order",
                              !.book = [ bids |-> orderbook.value.bids,
                                         asks |-> orderbook.value.asks ],
                              !.token = orderbook.value.token_id,
                              !.side = "bids", !.oidx = 1,
                              !.checked0 = stats.total_trades_checked,
                              !.seen0 = seen_trade_ids])
    /\ http' = [http EXCEPT ![t] = r.kind]
    /\ UNCHANGED << attrs, opc, oarg, ret, orderbook_history, spread_history,
                    at_stop, clock, poller, positions, pnl_history, closes,
                    replaced >>

\* the monitor whose fetches go through the client's requests
NextHttp ==
    \/ \E c \in Consumers : add_alert_callback(c)
    \/ \E m \in MarketListsConfig : set_tracked_markets(m)
    \/ \E a \in BOOLEAN, l \in Limits, df \in MarketFrames : start(a, l, df)
    \/ \E t \in OneThread :
          \/ while_running(t)
          \/ for_market(t)
          \/ \E r \in Responses : get_orderbook_requests(t, r)
          \/ for_order(t)
          \/ sleep(t)
          \/ Detect(t)
          \/ Alert(t)

SpecHttp == Init /\ [][NextHttp]_vars

(* ------------------------------ TradeManager --------------------------- *)
\* successful calls of close_position in a behaviour
MaxCloses == 2

\* arguments of add_position and close_position, prices in tenths
Tokens == {"t1", "t2"}
Sides == {"LONG", "SHORT", "long"}
Sizes == {50, 100}
EntryPrices == {6}
ExitPrices == {5, 7}

\* side.upper()
Upper(side) == IF side = "long" THEN "LONG" ELSE side

\* a P&L that takes every position for a LONG one
LongPnl(side, size, entry_price, exit_price) ==
    size * (exit_price - entry_price)

\* close_position's `if side == "LONG": ... else:`, in tenths
RealizedPnl(side, size, entry_price, exit_price) ==
    IF side = "LONG"
    THEN size * (exit_price - entry_price)
    ELSE size * (entry_price - exit_price)

\* self.positions[token_id] = position
SetItem(d, k, v) == [x \in DOMAIN d \cup {k} |-> IF x = k THEN v ELSE d[x]]

\* del self.positions[token_id]
DelItem(d, k) == [x \in DOMAIN d \ {k} |-> d[x]]

\* what the TradeManager leaves alone
ManagerFrame ==
    UNCHANGED << attrs, opc, oarg, worker, orderbook_history, spread_history,
                 at_stop, clock, poller, http >>

\* the position add_position builds
Position(token_id, side, size, entry_price) ==
    [ token_id |-> token_id, side |-> Upper(side), size |-> size,
      entry_price |-> entry_price, current_price |-> entry_price,
      unrealized_pnl |-> 0 ]

\* the record close_position builds
PnlRecord(position, exit_price) ==
    [ token_id |-> position.token_id, side |-> position.side,
      size |-> position.size, entry_price |-> position.entry_price,
      exit_price |-> exit_price,
      realized_pnl |-> RealizedPnl(position.side, position.size,
                                   position.entry_price, exit_price) ]

\* an add_position that closes the position it replaces at the new entry
\* price
add_position_closing(token_id, side, size, entry_price) ==
    /\ positions' =
           SetItem(positions, token_id,
                   Position(token_id, side, size, entry_price))
    /\ IF token_id \in DOMAIN positions /\ Len(pnl_history) < MaxCloses
       THEN pnl_history' =
                Append(pnl_history, PnlRecord(positions[token_id], entry_price))
       ELSE UNCHANGED pnl_history
    /\ replaced' = IF token_id \in DOMAIN positions
                   THEN replaced \cup {token_id} ELSE replaced
    /\ UNCHANGED << closes, ret >>
    /\ ManagerFrame

\* add_position(token_id, side, size, entry_price)
add_position(token_id, side, size, entry_price) ==
    /\ positions' =
           SetItem(positions, token_id,
                   Position(token_id, side, size, entry_price))
    /\ replaced' = IF token_id \in DOMAIN positions
                   THEN replaced \cup {token_id} ELSE replaced
    /\ UNCHANGED << pnl_history, closes, ret >>
    /\ ManagerFrame

\* a close_position that records its miss
NoPositionRecorded(token_id, exit_price) ==
    /\ Len(pnl_history) < MaxCloses
    /\ ret' = [ op |-> "close_position", arg |-> << token_id, exit_price >>,
                value |-> << 0 >> ]
    /\ pnl_history' =
           Append(pnl_history,
                  PnlRecord(Position(token_id, "LONG", 0, exit_price),
                            exit_price))
    /\ UNCHANGED << positions, closes, replaced >>

\* `if token_id not in self.positions:` print, `return 0.0`
NoPositionFound(token_id, exit_price) ==
    /\ ret' = [ op |-> "close_position", arg |-> << token_id, exit_price >>,
                value |-> << 0 >> ]
    /\ UNCHANGED << positions, pnl_history, closes, replaced >>

\* close_position(token_id, exit_price)
close_position(token_id, exit_price) ==
    /\ IF token_id \notin DOMAIN positions
       THEN NoPositionFound(token_id, exit_price)
       ELSE LET pnl_record == PnlRecord(positions[token_id], exit_price)
            IN  /\ Len(pnl_history) < MaxCloses
                /\ pnl_history' = Append(pnl_history, pnl_record)
                /\ positions' = DelItem(positions, token_id)
                /\ closes' = closes + 1
                /\ UNCHANGED replaced
                /\ ret' = [ op |-> "close_position",
                            arg |-> << token_id, exit_price >>,
                            value |-> << pnl_record.realized_pnl >> ]
    /\ ManagerFrame

NextManager ==
    \/ \E token_id \in Tokens, side \in Sides, size \in Sizes,
          entry_price \in EntryPrices :
            add_position(token_id, side, size, entry_price)
    \/ \E token_id \in Tokens, exit_price \in ExitPrices :
            close_position(token_id, exit_price)

SpecManager == Init /\ [][NextManager]_vars

(* ------------------------------ claims -------------------------------- *)

\* the detections a history holds: one ObservationID per record
RecordIds(h) == [i \in DOMAIN h |-> RecordId(h[i])]

\* C1: without a clear_history() in between, no two records of the history
\* come from observations with the same (token_id, side, price, size)
NoRepeatedRecord ==
    \A i, j \in DOMAIN big_trades_history :
        RecordIds(big_trades_history)[i] = RecordIds(big_trades_history)[j]
            => i = j

\* thread t is in _send_alerts, a consumer called or about to be
InDispatch(w) == w.pc \in {"callback", "sent_read", "sent_write"}

\* this step of thread t ends its dispatch of a record, or skips it
DispatchLeft(t) ==
    /\ InDispatch(worker[t]) \/ worker[t].pc = "history_append"
    /\ ~InDispatch(worker'[t])
    /\ worker'[t].pc # "history_append"

ConsumersCalled(w) == [i \in DOMAIN w.called |-> w.called[i][1]]
Succeeded(w) == {i \in DOMAIN w.called : w.called[i][2] = "ok"}

\* C2: when the dispatch of a record ends, every registered consumer has
\* been called once, in registration order, whatever each call did, and the
\* worker goes on with the next order of the same orderbook
DispatchReachesEveryConsumer ==
    [][\A t \in DOMAIN worker :
          DispatchLeft(t) =>
              /\ ConsumersCalled(worker'[t]) = alert_callbacks'
              /\ worker'[t].pc = "for_order"
              /\ worker'[t].oidx = worker[t].oidx + 1
              /\ worker'[t].side = worker[t].side
              /\ worker'[t].book = worker[t].book
              /\ worker'[t].midx = worker[t].midx
              /\ worker'[t].mlist = worker[t].mlist]_vars

\* C2, its case: a dispatch has ended in which the first consumer raised and
\* the second, another one, was called and returned
RaisedThenDelivered ==
    \E t \in DOMAIN worker :
        /\ worker[t].pc = "for_order"
        /\ Len(worker[t].called) = 2
        /\ worker[t].called[1][2] = "raised"
        /\ worker[t].called[2][2] = "ok"
        /\ worker[t].called[1][1] # worker[t].called[2][1]

\* C3: when the dispatch of a record to k consumers ends, alerts_sent is
\* what it was when the dispatch began plus the number of calls that
\* returned (k - f)
AlertsSentGrowsBySuccesses ==
    [][\A t \in DOMAIN worker :
          DispatchLeft(t) =>
              stats'.alerts_sent =
                  worker'[t].base + Cardinality(Succeeded(worker'[t]))]_vars

\* this step of thread t ends its cycle
CycleLeft(t) == worker[t].pc # "sleep" /\ worker'[t].pc = "sleep"

\* this step of thread t is its fetch raising
FetchRaised(t) ==
    /\ worker[t].pc = "get_orderbook"
    /\ worker'[t].pc \notin {"get_orderbook", "for_order"}

\* market i of the cycle's list was fetched
Fetched(w, i) == i <= Len(w.visits) /\ w.visits[i] \in {"ok", "fail"}
HadFailure(w) == \E i \in DOMAIN w.visits : w.visits[i] = "fail"

\* a fetch that raises changes no attribute and the worker is at the next
\* market of the same list
FailureContributesNothing ==
    \A t \in DOMAIN worker :
        FetchRaised(t) =>
            /\ UNCHANGED attrs
            /\ worker'[t].pc = "for_market"
            /\ worker'[t].midx = worker[t].midx + 1
            /\ worker'[t].mlist = worker[t].mlist

HistoryInDedupStore ==
    \A i \in DOMAIN big_trades_history :
        RecordIds(big_trades_history)[i] \in seen_trade_ids

\* the owner is inside clear_history(): some of its writes are done, some not
InClearHistory ==
    opc \in {"clear_seen", "clear_checked", "clear_detected", "clear_sent"}

\* thread t has marked an observation and not yet pushed its record
InItem(w) == w.pc \in {"detected_read", "detected_write", "history_append"}

\* C6: clear_history() never runs while a worker is between the dedup-mark
\* of an observation and the push of its record
ClearHistoryExcludesItem ==
    ~(InClearHistory /\ \E t \in DOMAIN worker : InItem(worker[t]))

\* C7: at most one worker thread is alive and in the poll loop at any time,
\* whatever start() and stop() calls the owner makes
OneWorkerAtATime ==
    Cardinality({t \in DOMAIN worker : Alive(t)}) <= 1

\* C8: a stop() that found the monitor running returns, also when the
\* worker never comes back from its fetch, and is_running is False when it
\* returns
StopReturnsStopped ==
    /\ [][(opc = "join" /\ opc' = "idle") => ~is_running']_vars
    /\ (opc = "join") ~> (opc = "idle" /\ ~is_running)

\* C8, its case: stop() has returned while the worker it waited for is still
\* in its fetch
StopReturnedOnTimeout ==
    /\ opc = "idle"
    /\ ~is_running
    /\ \E t \in DOMAIN worker :
          t = monitor_thread /\ worker[t].pc = "get_orderbook"

\* C9: a stop() that finds is_running False returns at once and changes no
\* attribute of the monitor and no thread
StopWhenStoppedChangesNothing ==
    [][(~is_running /\ stop) => UNCHANGED vars]_vars

\* C9, its case: the monitor was stopped after a run that detected a big
\* order, and the owner is free to call stop() again
StoppedAfterRun ==
    /\ opc = "idle"
    /\ ~is_running
    /\ monitor_thread # None
    /\ big_trades_history # << >>
    /\ ENABLED stop

\* C10: a start() that finds is_running True creates no thread, discovers
\* no markets and changes no attribute of the monitor
StartWhenRunningChangesNothing ==
    [][(is_running /\ \E a \in BOOLEAN, l \in Limits, df \in MarketFrames :
                          start(a, l, df))
         => UNCHANGED vars]_vars

\* C10, its case: the monitor is running with a record in its history, the
\* owner is free to call start() and a thread object is left to create
RunningWithThreadToSpare ==
    /\ opc = "idle"
    /\ is_running
    /\ big_trades_history # << >>
    /\ \E t \in DOMAIN worker : worker[t].pc = "none"

\* C11: a start() on a stopped monitor whose tracked list is empty after the
\* optional discovery leaves is_running False, creates no thread and leaves
\* start_time as it was
StartWithoutMarketsAborts ==
    [][\A a \in BOOLEAN, l \in Limits, df \in MarketFrames :
          (~is_running /\ start(a, l, df) /\ tracked_markets' = << >>) =>
              /\ ~is_running'
              /\ worker' = worker
              /\ monitor_thread' = monitor_thread
              /\ stats'.start_time = stats.start_time]_vars

\* C11, its case: the monitor has run and was stopped, its tracked list was
\* emptied, a thread object is left to create and the owner is free to call
\* start(); no worker is alive
StoppedWithNothingToMonitor ==
    /\ opc = "idle"
    /\ ~is_running
    /\ tracked_markets = << >>
    /\ stats.start_time > 0
    /\ \A t \in DOMAIN worker : ~Alive(t)
    /\ \E t \in DOMAIN worker : worker[t].pc = "none"

\* thread t is at the head of a cycle's market loop, no market visited yet
CycleBegun(w) == w.pc = "for_market" /\ w.midx = 1 /\ w.visits = << >>

\* C12: a worker ends only in a step that finds is_running False, whatever
\* raised in its cycles; and as long as is_running stays True every cycle
\* comes to its end and is followed by a further cycle
LoopNeverFatal ==
    /\ [][\A t \in DOMAIN worker :
            (Alive(t) /\ worker'[t].pc = "done") => ~is_running]_vars
    /\ \A t \in OneThread :
          /\ Alive(t) ~> (~is_running \/ worker[t].pc = "sleep")
          /\ (worker[t].pc = "sleep") ~> (~is_running \/ CycleBegun(worker[t]))

\* C12, its case: the monitor is running and its worker is at the end of a
\* cycle in which a fetch raised and then the loop body raised
CycleSurvivedErrors ==
    \E t \in DOMAIN worker :
        /\ is_running
        /\ worker[t].pc = "sleep"
        /\ worker[t].visits = << "fail", "error" >>

\* C13: once stop() has cleared is_running, the worker starts no fetch and
\* does not enter the inter-cycle sleep: it leaves the market loop and exits
NoFetchNoSleepAfterStop ==
    [][\A t \in DOMAIN worker :
          (~is_running /\ worker'[t].pc \in {"get_orderbook", "sleep"}) =>
              worker'[t].pc = worker[t].pc]_vars

\* this step of thread t is the threshold test of a numeric order
OrderEvaluated(t) ==
    /\ worker[t].pc = "for_order"
    /\ worker'[t] # worker[t]
    /\ worker[t].oidx <= Len(worker[t].book[worker[t].side])
    /\ CurOrder(t).num

\* C14: every order of a cycle is found big or not by the size and value
\* thresholds that were in effect when the cycle began
ThresholdsFixedForCycle ==
    [][\A t \in DOMAIN worker :
          OrderEvaluated(t) =>
              ((worker'[t].pc = "checked_read") <=>
                   IsBig(CurOrder(t).size, CurOrder(t).price,
                         worker[t].st0, worker[t].vt0))]_vars

\* C15: a cycle iterates the list that was tracked when it began: each
\* token it fetches is the next one of that list, a set_tracked_markets call
\* changes nothing of the worker, a cycle that is not cut short by stop()
\* visits every market of that list, and the next cycle takes the list
\* tracked then
CycleVisitsItsList ==
    [][\A t \in DOMAIN worker :
          /\ (worker[t].pc = "for_market" /\ worker'[t].pc = "get_orderbook") =>
                 /\ worker[t].midx <= Len(worker[t].mlist)
                 /\ worker'[t].token = worker[t].mlist[worker[t].midx]
          /\ (\E m \in MarketListsConfig : set_tracked_markets(m)) =>
                 worker' = worker
          /\ (CycleLeft(t) /\ is_running) =>
                 Len(worker'[t].visits) = Len(worker'[t].mlist)
          /\ (worker[t].pc = "while" /\ worker'[t].pc = "for_market") =>
                 worker'[t].mlist = tracked_markets]_vars

\* C15, its case: a cycle over two markets has visited both although the
\* tracked list was replaced by another, of one market, while it ran
VisitedReplacedList ==
    \E t \in DOMAIN worker :
        /\ is_running
        /\ worker[t].pc = "sleep"
        /\ worker[t].mlist = <<"t2", "t1">>
        /\ Len(worker[t].visits) = 2
        /\ tracked_markets = <<"t1">>

\* this step of thread t ends the processing of a fetched orderbook
MarketProcessed(t) ==
    worker[t].pc = "for_order" /\ worker'[t].pc = "for_market"

\* C16: when the processing of a fetched orderbook ends, total_trades_checked
\* is what it was when the orderbook was returned plus the number of its bid
\* and ask levels
EveryLevelChecked ==
    [][\A t \in DOMAIN worker :
          MarketProcessed(t) =>
              stats'.total_trades_checked =
                  worker[t].checked0 + Len(worker[t].book.bids)
                                     + Len(worker[t].book.asks)]_vars

\* thread t is processing a big order whose ID was in the Dedup Store when
\* the fetch returned it, and still is
AtRepeat(t) ==
    /\ worker[t].pc \in {"checked_write", "seen_test"}
    /\ CurId(t) \in worker[t].seen0
    /\ CurId(t) \in seen_trade_ids

\* C17: the processing of a big order whose ID is already in the Dedup Store
\* adds 1 to total_trades_checked and changes nothing else: the worker goes
\* on with the next order, no record made and no consumer called
RepeatIsOnlyCounted ==
    [][\A t \in DOMAIN worker :
          (AtRepeat(t) /\ worker'[t] # worker[t]) =>
              /\ worker[t].pc = "checked_write" =>
                     /\ stats' = [stats EXCEPT !.total_trades_checked = @ + 1]
                     /\ worker'[t].pc = "seen_test"
              /\ worker[t].pc = "seen_test" =>
                     /\ stats' = stats
                     /\ worker'[t].pc = "for_order"
                     /\ worker'[t].oidx = worker[t].oidx + 1
              /\ UNCHANGED << seen_trade_ids, big_trades_history,
                              alert_callbacks >>]_vars

\* x is an item of the ring q
Has(q, x) == \E i \in DOMAIN q : q[i] = x

\* the step from ring q to ring q2, if it is a push, puts one item at the
\* end, keeps the others in their order and drops the oldest, and only it,
\* when q held n items
PushEvictsOldest(q, q2, n) ==
    (q2 # q /\ q2 # << >>) =>
        /\ Len(q2) = Min(Len(q) + 1, n)
        /\ \A i \in 1..(Len(q2) - 1) : q2[i] = q[i + Len(q) + 1 - Len(q2)]

\* C18: no ring ever holds more items than its capacity (10000 big trades,
\* 1000 orderbooks, 1000 spreads); a push at capacity drops the oldest item
\* only, so that once more than the capacity was pushed the first item is
\* gone and the last pushed is the newest
RingsKeepNewest ==
    /\ [](/\ Len(big_trades_history) <= HistoryMaxLen
          /\ Len(orderbook_history) <= OrderbookMaxLen
          /\ Len(spread_history) <= SpreadMaxLen
          /\ (opc = "idle" /\ stats.big_trades_detected > HistoryMaxLen) =>
                 /\ ~Has(big_trades_history, Trade(1))
                 /\ big_trades_history[Len(big_trades_history)] =
                        Trade(stats.big_trades_detected)
          /\ NextStamp(spread_history) > SpreadMaxLen + 1 =>
                 ~Has(spread_history, SpreadAt(1))
          /\ NextStamp(orderbook_history) > OrderbookMaxLen + 1 =>
                 ~Has(orderbook_history, OrderbookAt(1)))
    /\ [][/\ PushEvictsOldest(big_trades_history, big_trades_history',
                              HistoryMaxLen)
          /\ PushEvictsOldest(orderbook_history, orderbook_history',
                              OrderbookMaxLen)
          /\ PushEvictsOldest(spread_history, spread_history',
                              SpreadMaxLen)]_vars

\* C18, its case: one more record than its capacity was pushed to the
\* big-trade history and one more item to each of TradeMonitor's rings
RingsOverflowed ==
    /\ stats.big_trades_detected = HistoryMaxLen + 1
    /\ Len(big_trades_history) = HistoryMaxLen
    /\ big_trades_history[1] = Trade(2)
    /\ big_trades_history[HistoryMaxLen] = Trade(HistoryMaxLen + 1)
    /\ Len(spread_history) = SpreadMaxLen
    /\ spread_history[1] = SpreadAt(2)
    /\ Len(orderbook_history) = OrderbookMaxLen
    /\ orderbook_history[1] = OrderbookAt(2)

BigRule(size, price) ==
    \/ size >= size_threshold
    \/ size * price >= value_threshold * PriceUnit

\* C20: for every numeric size and price and every pair of thresholds, the
\* test on an orderbook level passes, and _is_big_trade returns True,
\* exactly when size >= size_threshold or size * price >= value_threshold
BigExactlyByRule ==
    [][/\ \A t \in DOMAIN worker :
              OrderEvaluated(t) =>
                  ((worker'[t].pc = "checked_read") <=>
                       BigRule(CurOrder(t).size, CurOrder(t).price))
       /\ (ret' # ret /\ ret'.op = "_is_big_trade" /\ ret'.arg.num) =>
              ret'.value = << BigRule(ret'.arg.size, ret'.arg.price) >>]_vars

\* C20, its case: with thresholds 500 / 100, the level of size 600 at price
\* 0.5 was found big and recorded, and _is_big_trade has returned False for
\* size 50 at price 0.1
ExamplesEvaluated ==
    /\ size_threshold = 500
    /\ value_threshold = 100
    /\ \E i \in DOMAIN big_trades_history :
           /\ big_trades_history[i].size = 600
           /\ big_trades_history[i].price = 5
    /\ ret = [ op |-> "_is_big_trade", arg |-> SmallOrder,
               value |-> << FALSE >> ]

\* trade or level b is at least a in size and in price
AtLeast(a, b) == a.num /\ b.num /\ b.size >= a.size /\ b.price >= a.price

\* _is_big_trade has returned True for a numeric trade
ReturnedBig(r) == r.op = "_is_big_trade" /\ r.value = << TRUE >>

\* C21: the thresholds being fixed, once _is_big_trade has returned True for
\* a size and a price, it returns True for every trade, and the test on an
\* orderbook level passes for every level, of at least that size and price
BigRuleMonotonic ==
    [][ReturnedBig(ret) =>
          /\ (ret' # ret /\ AtLeast(ret.arg, ret'.arg)) => ReturnedBig(ret')
          /\ \A t \in DOMAIN worker :
                 (OrderEvaluated(t) /\ AtLeast(ret.arg, CurOrder(t))) =>
                     worker'[t].pc = "checked_read"]_vars

\* C21, its case: with thresholds 1000 / 50, _is_big_trade has returned True
\* for size 500 at price 0.1, whose value is the threshold, and the worker
\* has found a level of size 600 at price 0.5 big
BiggerFoundBig ==
    /\ size_threshold = 1000
    /\ value_threshold = 50
    /\ ReturnedBig(ret)
    /\ ret.arg.size = 500 /\ ret.arg.price = 1
    /\ \E t \in DOMAIN worker :
           /\ worker[t].pc = "checked_read"
           /\ CurOrder(t).size = 600 /\ CurOrder(t).price = 5

\* C22: a level whose size or price is not numeric changes no attribute of
\* the monitor (no record, no alert, no counter, no stored ID) and the worker
\* goes on to the next level of the same orderbook; _is_big_trade returns
\* False for such a trade and changes nothing
MalformedIsNotBig ==
    [][/\ \A t \in DOMAIN worker :
              ( /\ worker[t].pc = "for_order"
                /\ worker'[t] # worker[t]
                /\ worker[t].oidx <= Len(worker[t].book[worker[t].side])
                /\ ~CurOrder(t).num ) =>
                  /\ UNCHANGED attrs
                  /\ worker'[t].pc = "for_order"
                  /\ worker'[t].book = worker[t].book
                  /\ worker'[t].side = worker[t].side
                  /\ worker'[t].oidx = worker[t].oidx + 1
                  /\ worker'[t].midx = worker[t].midx
       /\ (ret' # ret /\ ret'.op = "_is_big_trade" /\ ~ret'.arg.num) =>
              /\ ret'.value = << FALSE >>
              /\ UNCHANGED << attrs, worker >>]_vars

\* C22, its case: the big ask that follows a non-numeric bid and a
\* non-numeric ask of its orderbook is recorded, and nothing else is
MalformedThenRecorded ==
    \E t \in DOMAIN worker :
        /\ worker[t].book = BadAskBook
        /\ worker[t].side = "asks"
        /\ worker[t].oidx = 2
        /\ worker[t].pc = "callback"
        /\ big_trades_history = << CurRecord(t) >>
        /\ stats.total_trades_checked = 1
        /\ stats.big_trades_detected = 1

\* this step is one of clear_history()'s statements
ClearStep == opc # "idle" \/ opc' # "idle"

\* C23: no step other than clear_history()'s lowers total_trades_checked,
\* big_trades_detected or alerts_sent, and clear_history()'s statements set
\* each of the three to zero
CountersNeverDecrease ==
    [][/\ ~(clear_history /\ ClearStep) =>
              /\ stats'.total_trades_checked >= stats.total_trades_checked
              /\ stats'.big_trades_detected >= stats.big_trades_detected
              /\ stats'.alerts_sent >= stats.alerts_sent
       /\ (clear_history /\ opc = "clear_checked") =>
              stats'.total_trades_checked = 0
       /\ (clear_history /\ opc = "clear_detected") =>
              stats'.big_trades_detected = 0
       /\ (clear_history /\ opc = "clear_sent") =>
              stats'.alerts_sent = 0]_vars

\* the three counters
Counters ==
    << stats.total_trades_checked, stats.big_trades_detected,
       stats.alerts_sent >>

\* C24: stop() and start() leave the Dedup Store, the history and the three
\* counters as they are, and an order whose record was in the history when
\* stop() was called is not recorded and dispatched again once a start() has
\* created another worker
RestartKeepsStores ==
    [][/\ ( \/ stop
            \/ stop_join
            \/ \E a \in BOOLEAN, l \in Limits, df \in MarketFrames :
                   start(a, l, df) ) =>
              UNCHANGED << seen_trade_ids, big_trades_history, Counters >>
       /\ \A t \in DOMAIN worker :
              (worker[t].pc = "history_append" /\ worker'[t] # worker[t]) =>
                  \A u \in DOMAIN worker :
                      (monitor_thread # u) => CurId(t) \notin at_stop[u]]_vars

\* C25: start(auto_discover=True, market_limit=L) on a stopped monitor that
\* tracks nothing leaves at most L tracked markets, and markets_monitored
\* at most L
DiscoveryWithinLimit ==
    [][\A l \in Limits, df \in MarketFramesPairs :
          (~is_running /\ tracked_markets = << >> /\ start(TRUE, l, df)) =>
              /\ Len(tracked_markets') <= l
              /\ stats'.markets_monitored <= l]_vars

\* this step of thread t ends the processing of a numeric level: the worker
\* goes on to the next level of the orderbook
LevelLeft(t) ==
    /\ worker[t].pc \notin {"none", "done", "while", "for_market",
                             "get_orderbook", "sleep"}
    /\ worker[t].oidx \in 1..Len(worker[t].book[worker[t].side])
    /\ CurOrder(t).num
    /\ worker'[t].pc = "for_order"
    /\ worker'[t].side = worker[t].side
    /\ worker'[t].oidx = worker[t].oidx + 1

\* C26: when the processing of a level by the poll cycle ends, the level's
\* ID is in the Dedup Store, whether the level was big or not
EveryLevelMarked ==
    [][\A t \in DOMAIN worker :
          LevelLeft(t) => CurId(t) \in seen_trade_ids']_vars

\* thread t takes a step from position p
StepFrom(t, p) == worker[t].pc = p /\ worker'[t] # worker[t]

\* C27: a big level whose ID is not in the Dedup Store is not passed over,
\* and its handling adds its ID to the store, adds 1 to big_trades_detected,
\* appends its record to the history and calls every registered consumer
\* once, before the worker goes on to the next level
BigLevelHandledOnce ==
    [][\A t \in DOMAIN worker :
          /\ (StepFrom(t, "seen_test") /\ CurId(t) \notin seen_trade_ids) =>
                 worker'[t].pc = "seen_add"
          /\ StepFrom(t, "seen_add") =>
                 /\ CurId(t) \in seen_trade_ids'
                 /\ worker'[t].pc = "detected_read"
          /\ StepFrom(t, "detected_read") => worker'[t].pc = "detected_write"
          /\ StepFrom(t, "detected_write") =>
                 /\ stats'.big_trades_detected = stats.big_trades_detected + 1
                 /\ worker'[t].pc = "history_append"
          /\ StepFrom(t, "history_append") =>
                 /\ Len(big_trades_history') =
                        Min(Len(big_trades_history) + 1, HistoryMaxLen)
                 /\ big_trades_history'[Len(big_trades_history')] =
                        CurRecord(t)
          /\ DispatchLeft(t) =>
                 /\ ConsumersCalled(worker'[t]) = alert_callbacks
                 /\ LevelLeft(t)]_vars

\* C28: a detected big trade is marked in the Dedup Store, then counted in
\* big_trades_detected, then appended to the history, then dispatched; so
\* whenever a consumer is being called with a record, the record is in the
\* history and big_trades_detected counts it
HandledInOrder ==
    /\ [][\A t \in DOMAIN worker :
              /\ StepFrom(t, "seen_add") =>
                     worker'[t].pc \in {"detected_read", "detected_write"}
              /\ StepFrom(t, "detected_write") =>
                     worker'[t].pc = "history_append"
              /\ (worker[t].pc # "callback" /\ worker'[t].pc = "callback") =>
                     worker[t].pc \in {"history_append", "sent_write"}]_vars
    /\ [](\A t \in DOMAIN worker :
              worker[t].pc = "callback" =>
                  /\ Has(big_trades_history, CurRecord(t))
                  /\ stats.big_trades_detected >= 1)

\* C29: with fetches and consumers that return and no further start(), a
\* worker that is alive when is_running is False ends
StopEndsWorker ==
    \A t \in OneThread : (~is_running /\ Alive(t)) ~> (worker[t].pc = "done")

\* C29, its case: stop() was called for a worker that had recorded a big
\* trade, and the worker has ended
WorkerEndedAfterStop ==
    \E t \in DOMAIN worker :
        /\ ~is_running
        /\ monitor_thread = t
        /\ worker[t].pc = "done"
        /\ at_stop[t] # {}

\* C30: after a cycle that took e seconds the worker asks for a sleep of
\* max(0, poll_interval - e), never a negative one, and calls no sleep when
\* that is 0, so that a cycle longer than poll_interval is followed at once
\* by the next; a sleep lasts at least what was asked; after an exception
\* of the cycle the sleep is of poll_interval; and two consecutive cycles
\* start at least poll_interval apart
SleepsTheRemainder ==
    [][\A t \in DOMAIN worker :
          /\ StepFrom(t, "cycle_end") =>
                 LET e == clock - worker[t].cycle_start
                 IN  /\ worker'[t].sleep_time =
                            (IF e < PollInterval THEN PollInterval - e ELSE 0)
                     /\ worker'[t].sleep_time >= 0
                     /\ e >= PollInterval =>
                            (worker'[t].pc = "while" /\ clock' = clock)
                     /\ e < PollInterval => worker'[t].pc = "time_sleep"
          /\ StepFrom(t, "time_sleep") =>
                 clock' - clock >= worker[t].sleep_time
          /\ StepFrom(t, "cycle_error") => clock' - clock >= PollInterval
          /\ (StepFrom(t, "while") /\ worker[t].cycle > 0
                                   /\ worker'[t].pc = "cycle") =>
                 clock - worker[t].cycle_start >= PollInterval]_vars

\* C30, its case: the worker is in the sleep of 2 seconds it asked for
\* after its second cycle, which took 1 second
SleepingTheRemainder ==
    \E t \in DOMAIN worker :
        /\ worker[t].pc = "time_sleep"
        /\ worker[t].cycle = 2
        /\ worker[t].cycle_time = 1
        /\ worker[t].sleep_time = 2

\* the tracked-market list, the thresholds, the consumer list and the flag
Config ==
    << tracked_markets, size_threshold, value_threshold, alert_callbacks,
       is_running >>

\* C31: no step of a worker changes the tracked-market list, a threshold,
\* the consumer list or is_running; a step that changes one of them is a
\* statement of start, stop, set_tracked_markets, set_thresholds or
\* add_alert_callback
LoopLeavesConfig ==
    [][/\ (\E t \in DOMAIN worker : Alive(t) /\ worker'[t] # worker[t]) =>
              UNCHANGED Config
       /\ Config' # Config =>
              \/ \E c \in Consumers : add_alert_callback(c)
              \/ \E s \in SizeArgs, v \in ValueArgs : set_thresholds(s, v)
              \/ set_thresholds_value
              \/ \E m \in MarketLists : set_tracked_markets(m)
              \/ \E a \in BOOLEAN, l \in Limits, df \in MarketFrames :
                     start(a, l, df)
              \/ stop]_vars

\* C31, its case: a worker has fetched, recorded a big trade and called a
\* consumer, a fetch of a later cycle has raised, and the monitor runs with
\* the list, the thresholds and the consumers the owner has set
CycledUnderOwnersConfig ==
    \E t \in DOMAIN worker :
        /\ is_running
        /\ worker[t].pc = "sleep"
        /\ worker[t].visits = << "fail" >>
        /\ stats.alerts_sent = 1
        /\ tracked_markets = << "t1" >>
        /\ size_threshold = 1000
        /\ value_threshold = 50
        /\ Len(alert_callbacks) = 2

\* C32: whenever no call of the owner is in progress, the history holds at
\* most big_trades_detected records and big_trades_detected is at most
\* total_trades_checked
CountersOrdered ==
    opc = "idle" =>
        /\ Len(big_trades_history) <= stats.big_trades_detected
        /\ stats.big_trades_detected <= stats.total_trades_checked

\* what set_thresholds has no business with: the lifecycle, the tracked
\* markets, the Dedup Store, the history, the counters, the consumers
BesideThresholds ==
    << is_running, monitor_thread, worker, tracked_markets, seen_trade_ids,
       big_trades_history, stats, alert_callbacks >>

\* C33: set_thresholds changes size_threshold only when a size threshold is
\* passed and value_threshold only when a value threshold is passed, each
\* to the number passed, and nothing else of the monitor
SetThresholdsSetsWhatIsPassed ==
    [][/\ \A s \in SizeArgs, v \in ValueArgs :
              set_thresholds(s, v) =>
                  /\ size_threshold' =
                         (IF s = << >> THEN size_threshold ELSE s[1])
                  /\ UNCHANGED << value_threshold, BesideThresholds >>
       /\ set_thresholds_value =>
              /\ value_threshold' =
                     (IF oarg = << >> THEN value_threshold ELSE oarg[1])
              /\ UNCHANGED << size_threshold, BesideThresholds >>]_vars

\* C33, its case: set_thresholds(value_threshold=50) has returned on a
\* running monitor: the size threshold is still the constructor's
ValueThresholdAloneSet ==
    /\ opc = "idle"
    /\ is_running
    /\ size_threshold = DefaultSizeThreshold
    /\ value_threshold = 50
    /\ \E t \in DOMAIN worker : worker[t].pc = "checked_read"

\* what clear_history has no business with
BesideHistory ==
    << is_running, monitor_thread, worker, tracked_markets,
       stats.markets_monitored, stats.start_time, size_threshold,
       value_threshold, alert_callbacks >>

\* C34: clear_history's statements empty the history, empty the Dedup
\* Store and set each of the three counters to zero, and change nothing
\* else
ClearHistoryClearsStores ==
    [][clear_history =>
          /\ opc = "idle" => big_trades_history' = << >>
          /\ opc = "clear_seen" => seen_trade_ids' = {}
          /\ opc = "clear_checked" => stats'.total_trades_checked = 0
          /\ opc = "clear_detected" => stats'.big_trades_detected = 0
          /\ opc = "clear_sent" => stats'.alerts_sent = 0
          /\ UNCHANGED BesideHistory]_vars

\* C34, its case: clear_history() has returned on a running monitor whose
\* worker had found the Dedup Store filled at its last fetch; the stores
\* are empty, the counters zero, and the monitor runs with its market and
\* its consumers
ClearedWhileRunning ==
    \E t \in DOMAIN worker :
        /\ opc = "idle"
        /\ is_running
        /\ worker[t].seen0 # {}
        /\ seen_trade_ids = {}
        /\ big_trades_history = << >>
        /\ Counters = << 0, 0, 0 >>
        /\ stats.start_time = 1
        /\ tracked_markets = << "t1" >>
        /\ alert_callbacks # << >>

\* C35: in a poll of TradeMonitor, when the loop over an event's callbacks
\* ends every callback registered for the event has been called, in order,
\* whether or not one of them raised; and when _poll_orderbooks returns
\* the try of every tracked token has been entered, whether or not one of
\* them raised
PollSurvivesExceptions ==
    /\ [][poll_callbacks_end =>
             /\ Len(poller.log) = Len(poller.callbacks[poller.event])
             /\ \A i \in 1..Len(poller.log) : poller.log[i][1] = i]_vars
    /\ [](poller.pc = "returned" => poller.polled = poller.tracked_markets)

\* C35, its case: the poll of t1 raised, and in the poll of t2 the first
\* callback of an event raised and the second was called and returned
PolledOnAfterExceptions ==
    /\ poller.pc = "callbacks"
    /\ poller.tracked_markets = <<"t1", "t2">>
    /\ poller.polled = <<"t1", "t2">>
    /\ "poll" \in poller.raised
    /\ poller.log = << <<1, "raised">>, <<2, "returned">> >>

\* C36: for a request that fails with a RequestException, get_orderbook
\* raises nothing and returns the requested token_id with empty bids and
\* asks; the worker that called it goes on to the order loops with that
\* empty book, and while it is at that market it never reaches the
\* handling of an order
FailedRequestIsEmptyBook ==
    /\ [](\A token_id \in {"t1", "t2"}, r \in Responses :
             Failed(r) =>
                get_orderbook(token_id, r) =
                    [ raised |-> FALSE, value |-> EmptyOrderbook(token_id) ])
    /\ [][\A t \in OneThread, r \in Responses :
             (get_orderbook_requests(t, r) /\ Failed(r)) =>
                 /\ worker'[t].pc = "for_order"
                 /\ worker'[t].book = NoBook
                 /\ worker'[t].token = worker[t].token
                 /\ worker'[t].visits = worker[t].visits]_vars
    /\ [](\A t \in OneThread :
             (/\ http[t] \in RequestExceptions
              /\ worker[t].token # ""
              /\ worker[t].pc # "get_orderbook") =>
                 /\ worker[t].pc = "for_order"
                 /\ worker[t].book = NoBook)

\* C36, its case: the request for the cycle's first market timed out, the
\* market was left with no order handled, and the second market is next
MarketPassedAfterTimeout ==
    \E t \in OneThread :
        /\ http[t] = "Timeout"
        /\ worker[t].pc = "for_market"
        /\ worker[t].mlist = <<"t2", "t1">>
        /\ worker[t].midx = 2
        /\ worker[t].visits = <<"ok">>
        /\ stats.total_trades_checked = 0

\* the step is a close_position(token_id, exit_price) that finds a position
ClosesOpen(token_id, exit_price) ==
    /\ token_id \in DOMAIN positions
    /\ close_position(token_id, exit_price)

\* C37: close_position on an open position takes that position, and no
\* other, out of the positions, appends one P&L record, of that token, and
\* returns size * (exit_price - entry_price) for a LONG position and
\* size * (entry_price - exit_price) for a SHORT one; and at all times
\* there are as many P&L records as close_position calls that found a
\* position
CloseRealizesPnl ==
    /\ [][\A token_id \in Tokens, exit_price \in ExitPrices :
             ClosesOpen(token_id, exit_price) =>
               LET p == positions[token_id]
               IN  /\ DOMAIN positions' = DOMAIN positions \ {token_id}
                   /\ \A k \in DOMAIN positions' : positions'[k] = positions[k]
                   /\ Len(pnl_history') = Len(pnl_history) + 1
                   /\ SubSeq(pnl_history', 1, Len(pnl_history)) = pnl_history
                   /\ pnl_history'[Len(pnl_history')].token_id = token_id
                   /\ p.side = "LONG" =>
                         ret'.value =
                            << p.size * (exit_price - p.entry_price) >>
                   /\ p.side = "SHORT" =>
                         ret'.value =
                            << p.size * (p.entry_price - exit_price) >>
                   /\ pnl_history'[Len(pnl_history')].realized_pnl =
                         ret'.value[1]]_vars
    /\ [](Len(pnl_history) = closes)

\* C37, its case: a SHORT position of t2 entered at 0.6 was closed at 0.5
\* with a gain, after a LONG position of t1 was closed, and t2 is not open
ShortClosedWithGain ==
    /\ closes = 2
    /\ Len(pnl_history) = 2
    /\ pnl_history[1].side = "LONG"
    /\ pnl_history[2].side = "SHORT"
    /\ pnl_history[2].token_id = "t2"
    /\ ret.op = "close_position"
    /\ ret.arg = << "t2", 5 >>
    /\ ret.value = << 50 >>
    /\ "t2" \notin DOMAIN positions

\* C38: close_position on a token with no position returns 0.0 and leaves
\* the positions and the P&L history as they are
CloseOfNoPositionIsZero ==
    [][\A token_id \in Tokens, exit_price \in ExitPrices :
          (token_id \notin DOMAIN positions
             /\ close_position(token_id, exit_price)) =>
                /\ ret'.value = << 0 >>
                /\ UNCHANGED << positions, pnl_history >>]_vars

\* C38, its case: close_position("t2", 0.7) returned 0 while t1 alone was
\* open and one close was on record
ClosedNothing ==
    /\ ret.op = "close_position"
    /\ ret.arg = << "t2", 7 >>
    /\ ret.value = << 0 >>
    /\ DOMAIN positions = {"t1"}
    /\ Len(pnl_history) = 1
    /\ pnl_history[1].token_id = "t1"

\* C39: add_position on a token that has a position puts the new position
\* in its place, leaves the other positions and the number of open tokens
\* as they are, and writes no P&L record
AddReplacesPosition ==
    [][\A token_id \in Tokens, side \in Sides, size \in Sizes,
         entry_price \in EntryPrices :
          (token_id \in DOMAIN positions
             /\ add_position(token_id, side, size, entry_price)) =>
                /\ DOMAIN positions' = DOMAIN positions
                /\ positions'[token_id].side = Upper(side)
                /\ positions'[token_id].size = size
                /\ positions'[token_id].entry_price = entry_price
                /\ \A k \in DOMAIN positions \ {token_id} :
                      positions'[k] = positions[k]
                /\ UNCHANGED << pnl_history, closes >>]_vars

\* C39, its case: t1 holds a SHORT position of 50 that took the place of
\* an earlier position of t1, beside the position of t2, and no P&L record
\* was written
ReplacedWithoutRecord ==
    /\ replaced = {"t1"}
    /\ DOMAIN positions = {"t1", "t2"}
    /\ positions["t1"].side = "SHORT"
    /\ positions["t1"].size = 50
    /\ pnl_history = << >>
    /\ closes = 0

====
